---- MODULE Spec2Model ----
(***************************************************************************)
(* The HTTP client of the dashboard (services/apiClient.ts) and the        *)
(* session service built on it (authService): token storage, the unary     *)
(* request executor, the multipart encoder, the streaming executor and the *)
(* progress-tracked upload, as state machines over the browser's event     *)
(* loop.  A call is split at its suspension points (await / transport      *)
(* event); what runs between two suspension points is one action.          *)
(***************************************************************************)
EXTENDS Integers, Sequences, FiniteSets, TLC

VARIABLES
    localStorage,   \* value stored under TOKEN_KEY (Null when absent)
    calls,          \* calls in flight (fetch or XMLHttpRequest), by slot
    last,           \* what the last step did, as its caller / the transport saw it
    errArgs,        \* createApiError and its copies as pure functions: input
    errResult,      \*   ... and the error they produce
    formBody,       \* buildFormData as a pure function: the field mapping
    formData,       \*   ... and the multipart parts it appends
    responseBody,   \* the reading loop of stream(): the bytes of response.body
    wire,           \*   those of its bytes not yet delivered by the network
    packets,        \*   the sizes of the packets delivered so far
    incoming,       \*   packets delivered and not yet decoded: the first is written to
                    \*   the TextDecoderStream, the others wait in response.body
    transport,      \*   response.body: "open", "closed" or "errored"
    decoderPending, \*   bytes of an incomplete character held by the TextDecoderStream
    bomSeen,        \*   its decoder has output a code point (BOM seen)
    readable,       \*   decoded chunks handed to the reader, not yet taken by the loop
    enqueued,       \*   every decoded chunk the TextDecoderStream has enqueued
    fragments,      \*   the values the generator has yielded
    gen,            \*   the generator: "reading", "yielded", "done", "threw", "returned"
    readerLock,     \*   the lock of the reader on the decoded stream
    messages,       \* ChatInterface: the list of messages
    isLoading,      \*   a send is running
    error,          \*   the error shown (Null when none)
    chatPc,         \*   handleSendMessage: "idle" or "streaming" (in its for await)
    modelMessageId, \*   ... its modelMessageId
    responseText,   \*   ... its responseText
    received,       \*   the fragments the stream of the send has delivered
    streams,        \*   chat streams started and not yet ended or failed
    videoIsLoading, \* VideoAnalyzer: isLoading
    videoError,     \*   error (Null when none)
    analysisResult, \*   analysisResult (Null when none)
    history,        \*   the history of analyses, newest first
    uploadProgress, \*   uploadProgress, as an exact fraction
    abortControllerRef, \* abortControllerRef.current: Null, or the state of its controller
    analysis,       \*   the handleAnalysis suspended at its await, if any
    metadataLoads,  \*   video elements of handleFileChange still loading their metadata
    currentUser,    \* AppProvider: currentUser (Null when none)
    isLoadingUser,  \*   isLoadingUser
    users,          \*   users, the list of the admin views
    validation,     \*   validateSession: its position and the token its request carries
    logins,         \*   login calls awaiting their response
    adminFetches,   \*   fetchAdminData calls awaiting their responses
    renderedUser,   \*   the currentUser of the last render, the one its effect ran with
    userFresh,      \*   currentUser holds an object no render has seen yet
    adminOps        \*   updateUser, addUser and deleteUser calls awaiting their response

streamVars == <<responseBody, wire, packets, incoming, transport, decoderPending, bomSeen, readable,
                enqueued,
                fragments, gen, readerLock>>

chatVars == <<messages, isLoading, error, chatPc, modelMessageId, responseText, received,
              streams>>

videoVars == <<videoIsLoading, videoError, analysisResult, history, uploadProgress,
               abortControllerRef, analysis, metadataLoads>>

appVars == <<currentUser, isLoadingUser, users, validation, logins, adminFetches,
             renderedUser, userFresh, adminOps>>

vars == <<localStorage, calls, last, errArgs, errResult, formBody, formData, streamVars,
          chatVars, videoVars, appVars>>

(***************************************************************************)
(* Bounds                                                                  *)
(***************************************************************************)
MaxCalls == 2       \* calls in flight at once
MaxChunks == 2      \* chunks one stream delivers before it must end
MaxTotal == 2       \* largest total byte count of a progress event
MaxFields == 2      \* fields of a mapping handed to buildFormData
MaxChars == 2       \* characters of the text one stream delivers
MaxSends == 2       \* messages sent in one chat
MaxClock == 3       \* the largest value Date.now() returns
MaxHistory == 2     \* analyses kept in the history of the video analyzer
MaxPending == 2     \* requests of AppProvider, or metadata loads of the video
                    \* analyzer, awaiting their outcome at once
MaxOps == 1         \* calls of the user administration awaiting their response at once

(***************************************************************************)
(* Values                                                                  *)
(***************************************************************************)
Null == "<null>"            \* JavaScript null (getItem of an absent key)
Undefined == "<undefined>"  \* JavaScript undefined
NoStatus == 0

Tokens == {"t1", "t2"}
Users == {"u1"}

\* JavaScript truthiness of a string-or-null value, as used by `if (token)`,
\* `token && user` and `serverMessage || ...`
Truthy(v) == v # Null /\ v # Undefined /\ v # ""

\* variant: a || b without the fallback
OrElse_noFallback(a, b) == a

\* a || b on such values
OrElse(a, b) == IF Truthy(a) THEN a ELSE b

\* Response.ok / the test of xhr.onload
Ok(status) == status >= 200 /\ status < 300

(***************************************************************************)
(* Response bodies.  parse = FALSE: the text is not JSON (response.json()  *)
(* rejects, JSON.parse throws).  Otherwise json is the parsed value: Null  *)
(* for the JSON text `null`, else an object of which the model keeps the   *)
(* fields the client reads (Undefined when the object lacks the field).    *)
(***************************************************************************)
JsonObject(m, t, u) == [parse |-> TRUE, isNull |-> FALSE, message |-> m, token |-> t, user |-> u]
NotJson == [parse |-> FALSE, isNull |-> FALSE, message |-> Undefined, token |-> Undefined, user |-> Undefined]
JsonNull == [parse |-> TRUE, isNull |-> TRUE, message |-> Undefined, token |-> Undefined, user |-> Undefined]

ServerMessage == "server says no"

ErrorBodies ==
    { NotJson, JsonNull,
      JsonObject(Undefined, Undefined, Undefined),
      JsonObject("", Undefined, Undefined),
      JsonObject(ServerMessage, Undefined, Undefined) }

StatusTexts == {"", "Status Text"}

(***************************************************************************)
(* Errors a call can fail with                                             *)
(***************************************************************************)
AIError(message, type) == [kind |-> "AIError", type |-> type, message |-> message]
\* a raw runtime error of the given class (TypeError, SyntaxError, Error)
RawError(class) == [kind |-> class, type |-> "", message |-> ""]
NoResult == [kind |-> "none", type |-> "", message |-> ""]

\* `await response.json().catch(() => ({ message: response.statusText }))`
\* and the try { JSON.parse } catch of xhr.onload
ErrorBodyOf(body, statusText) ==
    IF body.parse THEN body ELSE JsonObject(statusText, Undefined, Undefined)

\* the default message of each branch of the status switch
DefaultMessage(status) ==
    CASE status = 400 -> "The request was invalid. Please check your input."
      [] status = 401 -> "Authentication failed. Please log in again."
      [] status = 403 -> "You don't have permission to perform this action."
      [] status = 404 -> "The requested resource was not found."
      [] status = 500 -> "An unexpected error occurred on the server. Please try again later."
      [] status \in {502, 503, 504} -> "The server is temporarily unavailable. Please try again in a few moments."
      [] OTHER -> "An unknown error occurred (Status: " \o ToString(status) \o ")."

\* the errorType each branch of the status switch assigns
ErrorType(status) ==
    CASE status = 400 -> "generic"
      [] status \in {401, 403} -> "api_key"
      [] OTHER -> "network"

\* createApiError(response): reading .message of a JSON null throws
createApiError(status, body, statusText) ==
    LET errorBody == ErrorBodyOf(body, statusText)
    IN  IF errorBody.isNull
        THEN RawError("TypeError")
        ELSE AIError(OrElse(errorBody.message, DefaultMessage(status)), ErrorType(status))

\* the first copy of the client in the same file: request() builds its error inline
requestErrorFirstCopy(status, body, statusText) ==
    LET errorBody == ErrorBodyOf(body, statusText)
    IN  IF errorBody.isNull
        THEN RawError("TypeError")
        ELSE AIError(OrElse(errorBody.message, "An unknown network error occurred."),
                     IF status \in {401, 403} THEN "api_key" ELSE "network")

\* first copy, stream()
streamErrorFirstCopy(status, body, statusText) ==
    LET errorBody == ErrorBodyOf(body, statusText)
    IN  IF errorBody.isNull
        THEN RawError("TypeError")
        ELSE AIError(OrElse(errorBody.message, "Streaming failed."), "network")

\* first copy, apiClient.postFormData
postFormDataErrorFirstCopy(status, body, statusText) ==
    LET errorBody == ErrorBodyOf(body, statusText)
    IN  IF errorBody.isNull
        THEN RawError("TypeError")
        ELSE AIError(OrElse(errorBody.message, "Request failed"), "network")

\* the error a failed response produces, by copy of the client and request mode
ResponseError(copy, mode, status, body, statusText) ==
    IF copy = 2 THEN createApiError(status, body, statusText)
    ELSE CASE mode = "request" -> requestErrorFirstCopy(status, body, statusText)
           [] mode = "stream" -> streamErrorFirstCopy(status, body, statusText)
           [] OTHER -> postFormDataErrorFirstCopy(status, body, statusText)


(***************************************************************************)
(* buildFormData as a function from the field mapping (its entries in      *)
(* Object.keys order) to the parts appended to the FormData                *)
(***************************************************************************)
Value(type, b, n, s) == [type |-> type, b |-> b, n |-> n, s |-> s]
FieldValues ==
    { Value("undefined", FALSE, 0, ""), Value("null", FALSE, 0, ""),
      Value("boolean", FALSE, 0, ""), Value("boolean", TRUE, 0, ""),
      Value("number", FALSE, 0, ""), Value("number", FALSE, 7, ""),
      Value("string", FALSE, 0, ""), Value("string", FALSE, 0, "text"),
      Value("File", FALSE, 0, "clip.mp4"),
      Value("object", FALSE, 1, ""),       \* the object {a: n}
      Value("array", FALSE, 1, "") }       \* the array [n]
FieldKeys == {"model", "file", "config"}

\* typeof value === 'object' (null excluded by the test before it)
TypeofObject(value) == value.type \in {"object", "array", "File"}
InstanceofFile(value) == value.type = "File"

\* JSON.stringify of the objects and arrays above
JSONstringify(value) ==
    IF value.type = "array" THEN "[" \o ToString(value.n) \o "]"
    ELSE "{\"a\":" \o ToString(value.n) \o "}"

\* the string FormData.append stores for a value that is not a file
String(value) ==
    CASE value.type = "boolean" -> IF value.b THEN "true" ELSE "false"
      [] value.type = "number" -> ToString(value.n)
      [] value.type = "string" -> value.s
      [] OTHER -> value.type

\* variant: every value, files included, appended as its string
append_allText(parts, key, value) ==
    Append(parts, [name |-> key, kind |-> "text", value |-> String(value)])

\* formData.append(key, value): files become binary parts, the rest text parts
append(parts, key, value) ==
    IF InstanceofFile(value)
    THEN Append(parts, [name |-> key, kind |-> "file", value |-> value.s])
    ELSE Append(parts, [name |-> key, kind |-> "text", value |-> String(value)])

\* variant: `if (value)` in place of `value !== undefined && value !== null`
appendField_truthy(parts, key, value) ==
    IF value.type \notin {"undefined", "null"}
       /\ ~(value.type = "boolean" /\ ~value.b)
       /\ ~(value.type = "number" /\ value.n = 0)
       /\ ~(value.type = "string" /\ value.s = "")
    THEN IF TypeofObject(value) /\ ~InstanceofFile(value)
         THEN append(parts, key, Value("string", FALSE, 0, JSONstringify(value)))
         ELSE append(parts, key, value)
    ELSE parts

\* one iteration of the forEach in buildFormData
appendField(parts, key, value) ==
    IF value.type # "undefined" /\ value.type # "null"
    THEN IF TypeofObject(value) /\ ~InstanceofFile(value)
         THEN append(parts, key, Value("string", FALSE, 0, JSONstringify(value)))
         ELSE append(parts, key, value)
    ELSE parts

RECURSIVE buildFormDataFrom(_, _)
buildFormDataFrom(entries, parts) ==
    IF entries = <<>> THEN parts
    ELSE buildFormDataFrom(Tail(entries), appendField(parts, Head(entries).key, Head(entries).value))

buildFormData(body) == buildFormDataFrom(body, <<>>)

\* the field mappings of up to MaxFields entries, keys distinct
RECURSIVE FieldMappings(_)
FieldMappings(n) ==
    IF n = 0 THEN { <<>> }
    ELSE LET shorter == FieldMappings(n - 1)
         IN  shorter \cup
             { Append(m, [key |-> k, value |-> v]) :
                   m \in { x \in shorter : Len(x) = n - 1 }, k \in FieldKeys, v \in FieldValues }
DistinctKeys(m) == \A i, j \in 1..Len(m) : i # j => m[i].key # m[j].key


(***************************************************************************)
(* JSON.stringify(data) of apiClient.post and apiClient.put, as the        *)
(* members of the JSON object written                                      *)
(***************************************************************************)
\* the JSON text of a member's value; a File has no enumerable properties
JSONtext(value) ==
    CASE value.type = "null" -> "null"
      [] value.type = "File" -> "{}"
      [] value.type \in {"object", "array"} -> JSONstringify(value)
      [] value.type = "string" -> "\"" \o value.s \o "\""
      [] OTHER -> String(value)

\* JSON.stringify leaves out the members whose value is undefined
RECURSIVE JSONmembers(_)
JSONmembers(entries) ==
    IF entries = <<>> THEN <<>>
    ELSE LET e == Head(entries)
         IN  IF e.value.type = "undefined" THEN JSONmembers(Tail(entries))
             ELSE <<[name |-> e.key, kind |-> "json", value |-> JSONtext(e.value)]>>
                      \o JSONmembers(Tail(entries))

(***************************************************************************)
(* Token storage and the Authorization header                              *)
(***************************************************************************)
\* localStorage.getItem(TOKEN_KEY)
getItem == localStorage

\* variant: the header is set without the `if (token)` test
AuthorizationHeader_unconditional(token) == "Bearer " \o token

\* `if (token) headers.set('Authorization', `Bearer ${token}`)`; Null = no header
AuthorizationHeader(token) ==
    IF Truthy(token) THEN "Bearer " \o token ELSE Null

(***************************************************************************)
(* Calls in flight                                                         *)
(*   mode    the executor running the call: request, postFormData, stream, *)
(*           postWithProgress                                              *)
(*   caller  the operation that made the call: an apiClient method, or     *)
(*           "login" / "getCurrentUser" of authService                     *)
(*   phase   "created"  stream(): generator object made, body not started  *)
(*           "pending"  fetch issued, response awaited                     *)
(*           "reading"  stream(): reader acquired, chunks being read       *)
(*           "sent"     postWithProgress: after xhr.send                   *)
(*   yielded stream(): fragments yielded so far                            *)
(*   signal  postWithProgress: "live" the abort listener can fire,         *)
(*           "aborted" the signal was aborted before the listener was      *)
(*           added (it never fires), "fired" the listener has run          *)
(***************************************************************************)
FreeCall == [mode |-> "free", caller |-> "", phase |-> "", yielded |-> 0, signal |-> ""]
PendingCall(mode, caller) == [FreeCall EXCEPT !.mode = mode, !.caller = caller, !.phase = "pending"]

CallSlots == 1..MaxCalls
\* a new call takes the first free slot
FirstFree(i) == calls[i].mode = "free" /\ \A j \in 1..(i-1) : calls[j].mode # "free"

UnaryApis == {"get", "post", "put", "delete", "putFormData"}

\* the RequestInit body each apiClient method hands to request():
\* "json" = a JSON.stringify string, "formdata" = a FormData, "none" = no body
BodyOfApi(api) ==
    CASE api \in {"post", "put"} -> "json"
      [] api = "putFormData" -> "formdata"
      [] OTHER -> "none"

\* `if (!(options.body instanceof FormData) && options.body) headers.set('Content-Type', ...)`
ContentTypeHeader(bodyKind) ==
    IF bodyKind # "formdata" /\ bodyKind # "none" THEN "application/json" ELSE Null

\* the operations of apiClient
ClientOps == UnaryApis \cup {"postFormData", "stream", "postWithProgress"}

\* the body an operation hands to the transport for the mapping `data`:
\* JSON.stringify(data) in post and put, buildFormData(data) in putFormData,
\* postFormData, stream and postWithProgress, none in get and delete
RequestBody(op, data) ==
    CASE op \in {"post", "put"} -> [kind |-> "json", parts |-> JSONmembers(data)]
      [] op \in {"get", "delete"} -> [kind |-> "none", parts |-> <<>>]
      [] OTHER -> [kind |-> "formdata", parts |-> buildFormData(data)]

\* variant: request() setting the JSON Content-Type on every request
RequestContentType_always(op, bodyKind) == "application/json"

\* the Content-Type the client sets: request() decides by the body; postFormData,
\* stream and postWithProgress set no header but Authorization
RequestContentType(op, bodyKind) ==
    IF op \in UnaryApis THEN ContentTypeHeader(bodyKind) ELSE Null

(***************************************************************************)
(* The last step, as observed from outside the client:                     *)
(*   "issue"    a transport request leaves the client (fetch / xhr.send)   *)
(*   "settle"   a promise or generator finishes, with result and value     *)
(*   "yield"    a stream hands a fragment to its consumer                  *)
(*   "progress" the transport reports upload progress                      *)
(*   "abort"    an AbortController is triggered                            *)
(* requestResult is the outcome of the request() inside login and          *)
(* getCurrentUser, result what their own caller gets.                      *)
(***************************************************************************)
NoEvent ==
    [ev |-> "init", api |-> "", header |-> Null, contentType |-> Null, bodyKind |-> "none",
     status |-> NoStatus, hasBody |-> FALSE, result |-> NoResult, value |-> JsonNull,
     parsed |-> FALSE, network |-> FALSE, yielded |-> 0, readerAcquired |-> FALSE,
     lengthComputable |-> FALSE, loaded |-> 0, total |-> 0,
     onProgress |-> FALSE, percentComplete |-> [num |-> 0, den |-> 1],
     requestResult |-> NoResult,
     endpoint |-> "", source |-> "", onProgressGiven |-> FALSE, signalGiven |-> FALSE]

IssueEvent(api, header, bodyKind) ==
    [NoEvent EXCEPT !.ev = "issue", !.api = api, !.header = header, !.bodyKind = bodyKind,
                    !.contentType = ContentTypeHeader(bodyKind), !.network = TRUE]

Resolved == [kind |-> "resolved", type |-> "", message |-> ""]

(***************************************************************************)
(* request(): from the response to the promise's outcome                   *)
(***************************************************************************)
\* variant: request() without the `response.status === 204` test
request_no204(status, body, statusText) ==
    IF ~Ok(status) THEN
        [result |-> createApiError(status, body, statusText), value |-> JsonNull, parsed |-> TRUE]
    ELSE IF body.parse THEN
        [result |-> Resolved, value |-> body, parsed |-> TRUE]
    ELSE
        [result |-> RawError("SyntaxError"), value |-> JsonNull, parsed |-> TRUE]

\* outcome of request() for a response; parsed = response.json() was called on
\* it: by createApiError for a failed response, by request() itself for a
\* success other than 204
request(status, body, statusText) ==
    IF ~Ok(status) THEN
        [result |-> createApiError(status, body, statusText), value |-> JsonNull, parsed |-> TRUE]
    ELSE IF status = 204 THEN
        [result |-> Resolved, value |-> JsonNull, parsed |-> FALSE]
    ELSE IF body.parse THEN
        [result |-> Resolved, value |-> body, parsed |-> TRUE]
    ELSE
        [result |-> RawError("SyntaxError"), value |-> JsonNull, parsed |-> TRUE]

\* `fetch` itself rejecting (no response at all): the call rejects with that TypeError
fetchRejected == [result |-> RawError("TypeError"), value |-> JsonNull, parsed |-> FALSE]

(***************************************************************************)
(* authService: what login and getCurrentUser do with request()'s outcome  *)
(***************************************************************************)
\* variant: login returns the user without localStorage.setItem
login_noSetItem(outcome, storage) ==
    IF outcome.result.kind # "resolved" THEN
        [result |-> outcome.result, value |-> JsonNull, storage |-> storage]
    ELSE IF outcome.value.isNull THEN
        [result |-> RawError("TypeError"), value |-> JsonNull, storage |-> storage]
    ELSE IF Truthy(outcome.value.token) /\ Truthy(outcome.value.user) THEN
        [result |-> Resolved, value |-> outcome.value, storage |-> storage]
    ELSE
        [result |-> RawError("Error"), value |-> JsonNull, storage |-> storage]

\* login after `await apiClient.post(...)`
login(outcome, storage) ==
    IF outcome.result.kind # "resolved" THEN
        [result |-> outcome.result, value |-> JsonNull, storage |-> storage]
    ELSE IF outcome.value.isNull THEN      \* `const { token, user } = null`
        [result |-> RawError("TypeError"), value |-> JsonNull, storage |-> storage]
    ELSE IF Truthy(outcome.value.token) /\ Truthy(outcome.value.user) THEN
        [result |-> Resolved, value |-> outcome.value, storage |-> outcome.value.token]
    ELSE
        [result |-> RawError("Error"), value |-> JsonNull, storage |-> storage]

\* variant: the catch of getCurrentUser without localStorage.removeItem
getCurrentUser_noRemoveItem(outcome, storage) ==
    IF outcome.result.kind = "resolved" THEN
        [result |-> Resolved, value |-> outcome.value, storage |-> storage]
    ELSE
        [result |-> Resolved, value |-> JsonNull, storage |-> storage]

\* getCurrentUser after `await apiClient.get(...)`, with its catch
getCurrentUser(outcome, storage) ==
    IF outcome.result.kind = "resolved" THEN
        [result |-> Resolved, value |-> outcome.value, storage |-> storage]
    ELSE
        [result |-> Resolved, value |-> JsonNull, storage |-> Null]

\* the caller's continuation of a settled request()
Continue(caller, outcome, storage) ==
    CASE caller = "login" -> login(outcome, storage)
      [] caller = "getCurrentUser" -> getCurrentUser(outcome, storage)
      [] OTHER -> [result |-> outcome.result, value |-> outcome.value, storage |-> storage]

(***************************************************************************)
(* Responses the backend can give to a call in flight                      *)
(***************************************************************************)
Statuses == {200, 204, 400, 401, 403, 500}

UserObject(u) == JsonObject(Undefined, Undefined, u)
LoginBodies ==
    { JsonObject(Undefined, t, u) : t \in Tokens \cup {""}, u \in Users } \cup
    { JsonObject(Undefined, t, Undefined) : t \in Tokens } \cup
    { JsonObject(Undefined, Undefined, u) : u \in Users }
SuccessBodies(caller) ==
    IF caller = "login" THEN LoginBodies \cup {JsonNull, NotJson}
    ELSE {UserObject(u) : u \in Users} \cup {JsonNull, NotJson}
LiveErrorBodies == { NotJson, JsonNull, JsonObject(ServerMessage, Undefined, Undefined) }
LiveStatusText == "Status Text"

\* a 204 response has no body
Bodies(caller, status) ==
    IF status = 204 THEN {NotJson}
    ELSE IF Ok(status) THEN SuccessBodies(caller) ELSE LiveErrorBodies


(***************************************************************************)
(* Actions: unary requests and the session service                         *)
(***************************************************************************)
\* apiClient.get / post / put / delete / putFormData up to `await fetch(...)`
Request(i, api) ==
    /\ FirstFree(i)
    /\ calls' = [calls EXCEPT ![i] = PendingCall("request", api)]
    /\ last' = IssueEvent(api, AuthorizationHeader(getItem), BodyOfApi(api))
    /\ UNCHANGED <<localStorage, errArgs, errResult, formBody, formData, streamVars, chatVars, videoVars, appVars>>

\* authService.login up to the `await fetch(...)` of its apiClient.post
Login(i) ==
    /\ FirstFree(i)
    /\ calls' = [calls EXCEPT ![i] = PendingCall("request", "login")]
    /\ last' = IssueEvent("login", AuthorizationHeader(getItem), BodyOfApi("post"))
    /\ UNCHANGED <<localStorage, errArgs, errResult, formBody, formData, streamVars, chatVars, videoVars, appVars>>

\* variant: getCurrentUser without the `if (!token) return null` test
ReturnsWithoutRequest_never(token) == FALSE

\* `if (!token) return null` of getCurrentUser
ReturnsWithoutRequest(token) == ~Truthy(token)

\* authService.getCurrentUser: without a token `return null`, else up to the
\* `await fetch(...)` of its apiClient.get
GetCurrentUser ==
    /\ IF ReturnsWithoutRequest(getItem)
       THEN /\ last' = [NoEvent EXCEPT !.ev = "settle", !.api = "getCurrentUser",
                                       !.result = Resolved]
            /\ calls' = calls
       ELSE \E i \in CallSlots :
            /\ FirstFree(i)
            /\ calls' = [calls EXCEPT ![i] = PendingCall("request", "getCurrentUser")]
            /\ last' = IssueEvent("getCurrentUser", AuthorizationHeader(getItem), BodyOfApi("get"))
    /\ UNCHANGED <<localStorage, errArgs, errResult, formBody, formData, streamVars, chatVars, videoVars, appVars>>

\* localStorage.removeItem(TOKEN_KEY)
removeItem == Null

\* authService.logout
Logout ==
    /\ localStorage' = removeItem
    /\ last' = [NoEvent EXCEPT !.ev = "settle", !.api = "logout", !.result = Resolved]
    /\ UNCHANGED <<calls, errArgs, errResult, formBody, formData, streamVars, chatVars, videoVars, appVars>>

\* the settlement of a call and of its caller's continuation
Settle(i, outcome, status) ==
    LET call == calls[i]
        end == Continue(call.caller, outcome, localStorage)
    IN  /\ localStorage' = end.storage
        /\ calls' = [calls EXCEPT ![i] = FreeCall]
        /\ last' = [NoEvent EXCEPT !.ev = "settle", !.api = call.caller, !.network = TRUE,
                                   !.status = status, !.hasBody = status # NoStatus,
                                   !.result = end.result, !.value = end.value,
                                   !.parsed = outcome.parsed, !.requestResult = outcome.result]
        /\ UNCHANGED <<errArgs, errResult, formBody, formData, streamVars, chatVars, videoVars, appVars>>

\* a response arrives for a pending request()
RequestResponse(i, status, body, statusText) ==
    /\ calls[i].mode = "request" /\ calls[i].phase = "pending"
    /\ Settle(i, request(status, body, statusText), status)

\* the transport fails for a pending request(): fetch rejects
RequestNoResponse(i) ==
    /\ calls[i].mode = "request" /\ calls[i].phase = "pending"
    /\ Settle(i, fetchRejected, NoStatus)

(***************************************************************************)
(* Actions: apiClient.postFormData                                         *)
(***************************************************************************)
\* outcome of postFormData for a response: the body of a success is returned
\* as text, unparsed; createApiError parses the body of a failed response
postFormData(status, body, statusText) ==
    IF ~Ok(status) THEN
        [result |-> createApiError(status, body, statusText), value |-> JsonNull, parsed |-> TRUE]
    ELSE
        [result |-> Resolved, value |-> body, parsed |-> FALSE]

\* apiClient.postFormData up to `await fetch(...)`
PostFormData(i) ==
    /\ FirstFree(i)
    /\ calls' = [calls EXCEPT ![i] = PendingCall("postFormData", "postFormData")]
    /\ last' = IssueEvent("postFormData", AuthorizationHeader(getItem), "formdata")
    /\ UNCHANGED <<localStorage, errArgs, errResult, formBody, formData, streamVars, chatVars, videoVars, appVars>>

PostFormDataResponse(i, status, body, statusText) ==
    /\ calls[i].mode = "postFormData" /\ calls[i].phase = "pending"
    /\ Settle(i, postFormData(status, body, statusText), status)

PostFormDataNoResponse(i) ==
    /\ calls[i].mode = "postFormData" /\ calls[i].phase = "pending"
    /\ Settle(i, fetchRejected, NoStatus)

(***************************************************************************)
(* Actions: stream()                                                       *)
(***************************************************************************)
\* calling stream(): an async generator's body does not run until the first next()
Stream(i) ==
    /\ FirstFree(i)
    /\ calls' = [calls EXCEPT ![i] = [FreeCall EXCEPT !.mode = "stream", !.caller = "stream",
                                                      !.phase = "created"]]
    /\ last' = [NoEvent EXCEPT !.ev = "create", !.api = "stream"]
    /\ UNCHANGED <<localStorage, errArgs, errResult, formBody, formData, streamVars, chatVars, videoVars, appVars>>

\* the first next(): the body runs up to `await fetch(...)`
StreamStart(i) ==
    /\ calls[i].mode = "stream" /\ calls[i].phase = "created"
    /\ calls' = [calls EXCEPT ![i] = PendingCall("stream", "stream")]
    /\ last' = IssueEvent("stream", AuthorizationHeader(getItem), "formdata")
    /\ UNCHANGED <<localStorage, errArgs, errResult, formBody, formData, streamVars, chatVars, videoVars, appVars>>

\* the generator finishes: by a throw (result an error) or by returning
StreamFinish(i, result, status, hasBody, readerAcquired, parsed) ==
    /\ calls' = [calls EXCEPT ![i] = FreeCall]
    /\ last' = [NoEvent EXCEPT !.ev = "settle", !.api = "stream", !.network = TRUE,
                               !.status = status, !.hasBody = hasBody, !.result = result,
                               !.parsed = parsed,
                               !.yielded = calls[i].yielded, !.readerAcquired = readerAcquired]
    /\ UNCHANGED <<localStorage, errArgs, errResult, formBody, formData, streamVars, chatVars, videoVars, appVars>>

\* `if (!response.ok || !response.body)` of stream()
streamRejects(status, hasBody) == ~Ok(status) \/ ~hasBody

\* the initial response arrives: throw the error, or acquire the reader.
\* A response without a body has no JSON text.
StreamResponse(i, status, hasBody, body, statusText) ==
    /\ calls[i].mode = "stream" /\ calls[i].phase = "pending"
    /\ hasBody \/ body = NotJson
    /\ IF streamRejects(status, hasBody)
       THEN StreamFinish(i, createApiError(status, body, statusText), status, hasBody, FALSE, TRUE)
       ELSE /\ calls' = [calls EXCEPT ![i].phase = "reading"]
            /\ last' = [NoEvent EXCEPT !.ev = "reader", !.api = "stream", !.status = status,
                                       !.hasBody = hasBody, !.readerAcquired = TRUE]
            /\ UNCHANGED <<localStorage, errArgs, errResult, formBody, formData, streamVars, chatVars, videoVars, appVars>>

\* fetch rejects
StreamNoResponse(i) ==
    /\ calls[i].mode = "stream" /\ calls[i].phase = "pending"
    /\ StreamFinish(i, RawError("TypeError"), NoStatus, FALSE, FALSE, FALSE)

\* reader.read() gives a chunk: `yield value`
StreamRead(i) ==
    /\ calls[i].mode = "stream" /\ calls[i].phase = "reading"
    /\ calls[i].yielded < MaxChunks
    /\ calls' = [calls EXCEPT ![i].yielded = @ + 1]
    /\ last' = [NoEvent EXCEPT !.ev = "yield", !.api = "stream", !.yielded = calls[i].yielded + 1,
                               !.readerAcquired = TRUE]
    /\ UNCHANGED <<localStorage, errArgs, errResult, formBody, formData, streamVars, chatVars, videoVars, appVars>>

\* reader.read() gives done: break, finally releaseLock
StreamDone(i) ==
    /\ calls[i].mode = "stream" /\ calls[i].phase = "reading"
    /\ StreamFinish(i, Resolved, NoStatus, TRUE, TRUE, FALSE)

\* reader.read() rejects: finally releaseLock, the error propagates
StreamReadError(i) ==
    /\ calls[i].mode = "stream" /\ calls[i].phase = "reading"
    /\ StreamFinish(i, RawError("TypeError"), NoStatus, TRUE, TRUE, FALSE)


(***************************************************************************)
(* Actions: postWithProgress (one XMLHttpRequest, promise and AbortSignal  *)
(* per call)                                                               *)
(***************************************************************************)
\* variant: xhr.onabort rejecting like xhr.onerror
onabort_asNetworkError == AIError("Network request failed.", "network")

\* xhr.onabort: `reject(new DOMException('Request aborted by user', 'AbortError'))`
onabort == [kind |-> "AbortError", type |-> "", message |-> "Request aborted by user"]

\* xhr.onerror
onerror == AIError("Network request failed.", "network")

\* xhr.onload: what it settles the promise with.  Reading .message of a JSON
\* null throws inside the handler, and the promise is then never settled.
onload(status, body, statusText) ==
    IF Ok(status) THEN Resolved
    ELSE LET errorBody == ErrorBodyOf(body, statusText)
         IN  IF errorBody.isNull
             THEN NoResult
             ELSE AIError(OrElse(errorBody.message, DefaultMessage(status)), ErrorType(status))

\* xhr.onload of the first copy of the client: every failure is a 'network' error
onloadFirstCopy(status, body, statusText) ==
    IF Ok(status) THEN Resolved
    ELSE LET errorBody == ErrorBodyOf(body, statusText)
         IN  IF errorBody.isNull
             THEN NoResult
             ELSE AIError(OrElse(errorBody.message, "An unknown network error occurred."),
                          "network")

\* what the load event of a failed upload settles the promise with, by copy
UploadResponseError(copy, status, body, statusText) ==
    IF copy = 2 THEN onload(status, body, statusText)
    ELSE onloadFirstCopy(status, body, statusText)

\* postWithProgress(endpoint, body, onProgress, signal): open, header, handlers,
\* listener on the signal, send.  A listener added to a signal that is already
\* aborted never fires.
postWithProgress(i, signalAborted) ==
    /\ FirstFree(i)
    /\ calls' = [calls EXCEPT ![i] = [FreeCall EXCEPT !.mode = "postWithProgress", !.caller = "postWithProgress",
                                          !.phase = "sent",
                                          !.signal = IF signalAborted THEN "aborted" ELSE "live"]]
    /\ last' = IssueEvent("postWithProgress", AuthorizationHeader(getItem), "formdata")
    /\ UNCHANGED <<localStorage, errArgs, errResult, formBody, formData, streamVars, chatVars, videoVars, appVars>>

\* variant: the fraction without `* 100`
percentComplete_fraction(loaded, total) == [num |-> loaded, den |-> total]

\* `(event.loaded / event.total) * 100`, kept as an exact fraction
percentComplete(loaded, total) == [num |-> loaded * 100, den |-> total]

\* `if (event.lengthComputable)` of xhr.upload.onprogress
callsOnProgress(event) == event.lengthComputable

\* the progress events the transport can deliver: with a known total,
\* 0 <= loaded <= total and total > 0; with an unknown total, total = 0
ProgressEvents ==
    UNION { { [lengthComputable |-> TRUE, loaded |-> l, total |-> t] : l \in 0..t } :
            t \in 1..MaxTotal } \cup
    { [lengthComputable |-> FALSE, loaded |-> l, total |-> 0] : l \in 0..MaxTotal }

\* xhr.upload.onprogress; the transport delivers progress only while the transfer runs
UploadProgress(i, event) ==
    /\ calls[i].mode = "postWithProgress" /\ calls[i].phase = "sent"
    /\ last' = [NoEvent EXCEPT !.ev = "progress", !.api = "postWithProgress",
                    !.lengthComputable = event.lengthComputable,
                    !.loaded = event.loaded, !.total = event.total,
                    !.onProgress = callsOnProgress(event),
                    !.percentComplete = IF callsOnProgress(event)
                                        THEN percentComplete(event.loaded, event.total)
                                        ELSE @]
    /\ UNCHANGED <<localStorage, calls, errArgs, errResult, formBody, formData, streamVars, chatVars, videoVars, appVars>>

\* the end of an upload's XMLHttpRequest by one of its load, error, abort events
UploadEnd(i, ev, result, status, parsed) ==
    /\ calls' = [calls EXCEPT ![i] = FreeCall]
    /\ last' = [NoEvent EXCEPT !.ev = ev, !.api = "postWithProgress", !.network = TRUE,
                               !.status = status, !.parsed = parsed,
                               !.hasBody = status # NoStatus, !.result = result]
    /\ UNCHANGED <<localStorage, errArgs, errResult, formBody, formData, streamVars, chatVars, videoVars, appVars>>

\* the load event
UploadLoad(i, status, body, statusText) ==
    /\ calls[i].mode = "postWithProgress" /\ calls[i].phase = "sent"
    /\ LET result == onload(status, body, statusText)
       IN  UploadEnd(i, IF result = NoResult THEN "throw" ELSE "settle", result, status, ~Ok(status))

\* the error event
UploadError(i) ==
    /\ calls[i].mode = "postWithProgress" /\ calls[i].phase = "sent"
    /\ UploadEnd(i, "settle", onerror, NoStatus, FALSE)

\* the listener `() => { xhr.abort(); }`: does it end the request in flight
abortListener(call) == call.phase = "sent"

\* variant: one controller shared by every upload, so that any abort ends them all
Abort_all(i) ==
    /\ calls[i].mode = "postWithProgress" /\ calls[i].signal = "live"
    /\ calls' = [j \in CallSlots |->
                    IF calls[j].mode = "postWithProgress" /\ calls[j].phase = "sent"
                    THEN FreeCall ELSE calls[j]]
    /\ last' = [NoEvent EXCEPT !.ev = "abort", !.api = "postWithProgress",
                               !.network = TRUE, !.result = onabort]
    /\ UNCHANGED <<localStorage, errArgs, errResult, formBody, formData, streamVars, chatVars, videoVars, appVars>>

\* controller.abort() of an upload's controller while the upload is in flight:
\* the signal fires its listener; xhr.abort() ends the transfer and fires onabort
Abort(i) ==
    /\ calls[i].mode = "postWithProgress" /\ calls[i].signal = "live"
    /\ IF abortListener(calls[i])
       THEN /\ calls' = [calls EXCEPT ![i] = FreeCall]
            /\ last' = [NoEvent EXCEPT !.ev = "abort", !.api = "postWithProgress",
                                       !.network = TRUE, !.result = onabort]
       ELSE /\ calls' = [calls EXCEPT ![i].signal = "fired"]
            /\ last' = [NoEvent EXCEPT !.ev = "abort", !.api = "postWithProgress"]
    /\ UNCHANGED <<localStorage, errArgs, errResult, formBody, formData, streamVars, chatVars, videoVars, appVars>>

(***************************************************************************)
(* aiService.analyzeVideoWithAI: the endpoint and the executor it picks    *)
(***************************************************************************)
\* variant: the upload executor as soon as one of the two options is given
analyzeVideoWithAI_anyOption(source, onProgressGiven, signalGiven) ==
    IF source = "file"
    THEN [endpoint |-> "/api/video/analyze",
          api |-> IF onProgressGiven \/ signalGiven THEN "postWithProgress" ELSE "postFormData"]
    ELSE [endpoint |-> "/api/video/submit", api |-> "postFormData"]

\* `if (source.type === 'file') ... if (options?.onProgress && options?.signal)`
analyzeVideoWithAI(source, onProgressGiven, signalGiven) ==
    IF source = "file"
    THEN [endpoint |-> "/api/video/analyze",
          api |-> IF onProgressGiven /\ signalGiven THEN "postWithProgress" ELSE "postFormData"]
    ELSE [endpoint |-> "/api/video/submit", api |-> "postFormData"]

\* a call of analyzeVideoWithAI, up to the xhr.send or `await fetch(...)` of
\* the executor it hands the body to
AnalyzeVideoWithAI(i, source, onProgressGiven, signalGiven, signalAborted) ==
    LET picked == analyzeVideoWithAI(source, onProgressGiven, signalGiven)
    IN  /\ FirstFree(i)
        /\ signalAborted => signalGiven
        /\ calls' = [calls EXCEPT ![i] =
                IF picked.api = "postWithProgress"
                THEN [FreeCall EXCEPT !.mode = "postWithProgress", !.caller = "postWithProgress",
                                      !.phase = "sent",
                                      !.signal = IF signalAborted THEN "aborted" ELSE "live"]
                ELSE PendingCall("postFormData", "postFormData")]
        /\ last' = [IssueEvent(picked.api, AuthorizationHeader(getItem), "formdata")
                        EXCEPT !.endpoint = picked.endpoint, !.source = source,
                               !.onProgressGiven = onProgressGiven,
                               !.signalGiven = signalGiven]
        /\ UNCHANGED <<localStorage, errArgs, errResult, formBody, formData, streamVars, chatVars, videoVars, appVars>>

(***************************************************************************)
(* The reading loop of stream(): response.body piped through one           *)
(* TextDecoderStream, read chunk by chunk and yielded.  A decoded chunk is  *)
(* a sequence of code points; the wire carries the bytes of the body, cut  *)
(* into packets at any byte.                                               *)
(***************************************************************************)
ReplacementChar == 65533                \* U+FFFD
ByteOrderMark == 65279                  \* U+FEFF
\* a (1 byte), e-acute (2 bytes), euro sign (3 bytes), U+FEFF (3 bytes),
\* U+1F600 (4 bytes)
Chars == {97, 233, 8364, ByteOrderMark, 128512}

\* the UTF-8 bytes of a code point, as the server writes them
Utf8(c) ==
    IF c < 128 THEN <<c>>
    ELSE IF c < 2048 THEN <<192 + (c \div 64), 128 + (c % 64)>>
    ELSE IF c < 65536
    THEN <<224 + (c \div 4096), 128 + ((c \div 64) % 64), 128 + (c % 64)>>
    ELSE <<240 + (c \div 262144), 128 + ((c \div 4096) % 64), 128 + ((c \div 64) % 64),
           128 + (c % 64)>>

RECURSIVE Utf8Text(_)
Utf8Text(t) == IF t = <<>> THEN <<>> ELSE Utf8(Head(t)) \o Utf8Text(Tail(t))

\* bytes a UTF-8 sequence starting with b has; 0 for a byte that cannot start
\* one (0x80..0xC1, 0xF5..0xFF)
Needed(b) ==
    IF b < 128 THEN 1
    ELSE IF b >= 194 /\ b <= 223 THEN 2
    ELSE IF b >= 224 /\ b <= 239 THEN 3
    ELSE IF b >= 240 /\ b <= 244 THEN 4 ELSE 0

\* the k-th byte (k > 1) of a sequence starting with lead is a continuation
\* byte within the decoder's lower and upper boundary: 0x80..0xBF, narrowed
\* for the second byte after 0xE0 and 0xF0 (no overlong form), 0xED (no
\* surrogate) and 0xF4 (nothing above U+10FFFF)
IsContinuation(lead, k, b) ==
    /\ b >= (IF k = 2 /\ lead = 224 THEN 160 ELSE IF k = 2 /\ lead = 240 THEN 144 ELSE 128)
    /\ b <= (IF k = 2 /\ lead = 237 THEN 159 ELSE IF k = 2 /\ lead = 244 THEN 143 ELSE 191)

CodePoint(bytes) ==
    IF Len(bytes) = 1 THEN bytes[1]
    ELSE IF Len(bytes) = 2 THEN (bytes[1] - 192) * 64 + (bytes[2] - 128)
    ELSE IF Len(bytes) = 3
    THEN (bytes[1] - 224) * 4096 + (bytes[2] - 128) * 64 + (bytes[3] - 128)
    ELSE (bytes[1] - 240) * 262144 + (bytes[2] - 128) * 4096 + (bytes[3] - 128) * 64
            + (bytes[4] - 128)

\* the UTF-8 decoder of TextDecoder: the code points of `bytes`.  A byte that
\* cannot start a sequence gives U+FFFD; a sequence broken by a byte outside
\* its boundary gives one U+FFFD and that byte is decoded again as the start
\* of the next sequence; an incomplete sequence at the end is kept as pending
\* in streaming mode and gives one U+FFFD at the end of the stream.
RECURSIVE decode(_, _)
decode(bytes, flush) ==
    IF bytes = <<>> THEN [out |-> <<>>, pending |-> <<>>]
    ELSE LET n == Needed(Head(bytes))
             have == IF Len(bytes) < n THEN Len(bytes) ELSE n
             accepted(k) == \A j \in 2..k : IsContinuation(bytes[1], j, bytes[j])
             seen == IF n = 0 THEN 0
                     ELSE CHOOSE k \in 1..have :
                            accepted(k) /\ (k < have => ~accepted(k + 1))
         IN  IF n = 0
             THEN LET rest == decode(Tail(bytes), flush)
                  IN  [out |-> <<ReplacementChar>> \o rest.out, pending |-> rest.pending]
             ELSE IF seen = n
             THEN LET rest == decode(SubSeq(bytes, n + 1, Len(bytes)), flush)
                  IN  [out |-> <<CodePoint(SubSeq(bytes, 1, n))>> \o rest.out,
                       pending |-> rest.pending]
             ELSE IF seen < Len(bytes)
             THEN LET rest == decode(SubSeq(bytes, seen + 1, Len(bytes)), flush)
                  IN  [out |-> <<ReplacementChar>> \o rest.out, pending |-> rest.pending]
             ELSE IF flush THEN [out |-> <<ReplacementChar>>, pending |-> <<>>]
                  ELSE [out |-> <<>>, pending |-> bytes]

\* the decoder's output as a string: with ignoreBOM false, the first code
\* point of the stream is dropped when it is U+FEFF (bomSeen: a code point
\* has been output before)
serialize(codePoints, seen) ==
    IF ~seen /\ codePoints # <<>> /\ Head(codePoints) = ByteOrderMark
    THEN Tail(codePoints) ELSE codePoints

\* variant: each chunk decoded on its own (a new TextDecoder per chunk)
transform_stateless(pending, seen, chunk) ==
    [out |-> serialize(decode(chunk, TRUE).out, FALSE), pending |-> <<>>, bomSeen |-> TRUE]

\* the transform of the one TextDecoderStream of a stream: the chunk is decoded
\* after the bytes kept from the chunks before it
transform(pending, seen, chunk) ==
    LET decoded == decode(pending \o chunk, FALSE)
    IN  [out |-> serialize(decoded.out, seen), pending |-> decoded.pending,
         bomSeen |-> seen \/ decoded.out # <<>>]

\* the TextDecoderStream enqueues a decoded chunk unless it is empty
enqueue(queue, out) == IF out = <<>> THEN queue ELSE Append(queue, out)

\* a stream()'s reading loop before it starts
StreamIdle ==
    /\ responseBody = <<>> /\ wire = <<>> /\ packets = <<>> /\ incoming = <<>> /\ transport = "none"
    /\ decoderPending = <<>> /\ bomSeen = FALSE /\ readable = <<>> /\ enqueued = <<>>
    /\ fragments = <<>> /\ gen = "none" /\ readerLock = "none"

\* the readable side of a TextDecoderStream has a high-water mark of 0: the
\* packets written to it are transformed only while a read() is waiting,
\* one after the other until one of them gives a chunk; the packets left
\* wait for the next read()
RECURSIVE pull(_, _, _)
pull(pending, seen, queue) ==
    IF queue = <<>>
    THEN [pending |-> pending, bomSeen |-> seen, incoming |-> <<>>, out |-> <<>>]
    ELSE LET decoded == transform(pending, seen, Head(queue))
         IN  IF decoded.out # <<>>
             THEN [pending |-> decoded.pending, bomSeen |-> decoded.bomSeen,
                   incoming |-> Tail(queue), out |-> decoded.out]
             ELSE pull(decoded.pending, decoded.bomSeen, Tail(queue))

\* the end of the body closes the TextDecoderStream once every packet is
\* transformed: the bytes of an incomplete character are flushed as U+FFFD
flush(pending, queue, state) ==
    IF state = "closed" /\ queue = <<>> THEN decode(pending, TRUE).out ELSE <<>>

\* a read() has resolved and the loop has not run yet: the loop goes on
\* before the next event of the network is handled
readResolved == gen = "reading" /\ readable # <<>>

\* the network delivers the next n bytes of the body as one packet; it is
\* decoded at once when a read() is waiting for it
NetworkChunk(n) ==
    /\ transport = "open" /\ n >= 1 /\ n <= Len(wire)
    /\ ~readResolved
    /\ IF gen = "reading"
       THEN LET pulled == pull(decoderPending, bomSeen, Append(incoming, SubSeq(wire, 1, n)))
            IN  /\ decoderPending' = pulled.pending
                /\ bomSeen' = pulled.bomSeen
                /\ incoming' = pulled.incoming
                /\ readable' = enqueue(readable, pulled.out)
                /\ enqueued' = enqueue(enqueued, pulled.out)
       ELSE /\ incoming' = Append(incoming, SubSeq(wire, 1, n))
            /\ UNCHANGED <<decoderPending, bomSeen, readable, enqueued>>
    /\ wire' = SubSeq(wire, n + 1, Len(wire))
    /\ packets' = Append(packets, n)
    /\ last' = [NoEvent EXCEPT !.ev = "packet", !.api = "stream"]
    /\ UNCHANGED <<localStorage, calls, errArgs, errResult, formBody, formData,
                   responseBody, transport, fragments, gen, readerLock, chatVars, videoVars, appVars>>

\* the body ends: with no packet left to transform the decoder is flushed
\* and the decoded stream closed, otherwise that follows the last packet
NetworkEnd ==
    /\ transport = "open" /\ wire = <<>>
    /\ ~readResolved
    /\ transport' = "closed"
    /\ LET out == flush(decoderPending, incoming, "closed")
       IN  /\ decoderPending' = IF incoming = <<>> THEN <<>> ELSE decoderPending
           /\ bomSeen' = (bomSeen \/ out # <<>>)
           /\ readable' = enqueue(readable, out)
           /\ enqueued' = enqueue(enqueued, out)
    /\ last' = [NoEvent EXCEPT !.ev = "end", !.api = "stream"]
    /\ UNCHANGED <<localStorage, calls, errArgs, errResult, formBody, formData,
                   responseBody, wire, packets, incoming, fragments, gen, readerLock, chatVars, videoVars, appVars>>

\* the connection breaks: response.body is errored and the packets in its
\* queue are dropped; the packet already written to the TextDecoderStream is
\* still transformed by the next read(), and the read() after it rejects
NetworkError ==
    /\ transport = "open"
    /\ ~readResolved
    /\ transport' = "errored"
    /\ incoming' = IF incoming = <<>> THEN <<>> ELSE <<Head(incoming)>>
    /\ last' = [NoEvent EXCEPT !.ev = "broken", !.api = "stream"]
    /\ UNCHANGED <<localStorage, calls, errArgs, errResult, formBody, formData,
                   responseBody, wire, packets, decoderPending, bomSeen, readable, enqueued, fragments, gen, readerLock, chatVars, videoVars, appVars>>

\* variant: the loop without its finally block
releaseLock_never == "locked"

\* `finally { reader.releaseLock(); }`
releaseLock == "released"

\* `const { done, value } = await reader.read(); if (done) break; yield value;`
\* with a chunk for the read
ReaderRead ==
    /\ gen = "reading" /\ readable # <<>>
    /\ fragments' = Append(fragments, Head(readable))
    /\ readable' = Tail(readable)
    /\ gen' = "yielded"
    /\ last' = [NoEvent EXCEPT !.ev = "yield", !.api = "stream",
                               !.yielded = Len(fragments) + 1, !.readerAcquired = TRUE]
    /\ UNCHANGED <<localStorage, calls, errArgs, errResult, formBody, formData,
                   responseBody, wire, packets, incoming, transport, decoderPending, bomSeen, enqueued, readerLock, chatVars, videoVars, appVars>>

\* reader.read() resolves with done: break, finally, the generator returns
ReaderDone ==
    /\ gen = "reading" /\ readable = <<>> /\ incoming = <<>> /\ transport = "closed"
    /\ gen' = "done"
    /\ readerLock' = releaseLock
    /\ last' = [NoEvent EXCEPT !.ev = "settle", !.api = "stream", !.result = Resolved,
                               !.yielded = Len(fragments), !.readerAcquired = TRUE]
    /\ UNCHANGED <<localStorage, calls, errArgs, errResult, formBody, formData,
                   responseBody, wire, packets, incoming, transport, decoderPending, bomSeen, readable, enqueued, fragments, chatVars, videoVars, appVars>>

\* reader.read() rejects: finally, the error leaves the generator
ReaderError ==
    /\ gen = "reading" /\ readable = <<>> /\ incoming = <<>> /\ transport = "errored"
    /\ gen' = "threw"
    /\ readerLock' = releaseLock
    /\ last' = [NoEvent EXCEPT !.ev = "settle", !.api = "stream",
                               !.result = RawError("TypeError"),
                               !.yielded = Len(fragments), !.readerAcquired = TRUE]
    /\ UNCHANGED <<localStorage, calls, errArgs, errResult, formBody, formData,
                   responseBody, wire, packets, incoming, transport, decoderPending, bomSeen, readable, enqueued, fragments, chatVars, videoVars, appVars>>

\* the consumer asks for the next fragment: the loop goes on to reader.read(),
\* which makes the TextDecoderStream transform the packets waiting for it
ConsumerNext ==
    /\ gen = "yielded"
    /\ gen' = "reading"
    /\ LET pulled == pull(decoderPending, bomSeen, incoming)
           flushed == IF incoming = <<>> THEN <<>>
                      ELSE flush(pulled.pending, pulled.incoming, transport)
       IN  /\ decoderPending' = IF flushed # <<>> THEN <<>> ELSE pulled.pending
           /\ bomSeen' = (pulled.bomSeen \/ flushed # <<>>)
           /\ incoming' = pulled.incoming
           /\ readable' = enqueue(enqueue(readable, pulled.out), flushed)
           /\ enqueued' = enqueue(enqueue(enqueued, pulled.out), flushed)
    /\ last' = [NoEvent EXCEPT !.ev = "next", !.api = "stream"]
    /\ UNCHANGED <<localStorage, calls, errArgs, errResult, formBody, formData,
                   responseBody, wire, packets, transport, fragments, readerLock, chatVars, videoVars, appVars>>

\* the consumer stops early (return() on the generator suspended at its
\* yield): the finally block runs
ConsumerReturn ==
    /\ gen = "yielded"
    /\ gen' = "returned"
    /\ readerLock' = releaseLock
    /\ last' = [NoEvent EXCEPT !.ev = "return", !.api = "stream",
                               !.yielded = Len(fragments), !.readerAcquired = TRUE]
    /\ UNCHANGED <<localStorage, calls, errArgs, errResult, formBody, formData,
                   responseBody, wire, packets, incoming, transport, decoderPending, bomSeen, readable, enqueued, fragments, chatVars, videoVars, appVars>>

(***************************************************************************)
(* ChatInterface: handleSendMessage, reached through ChatInput.handleSend, *)
(* consuming sendAIMessageStream (which yields the fragments of            *)
(* apiClient.stream unchanged)                                             *)
(***************************************************************************)
NoFile == "<no file>"
ChatTexts == {"", " ", "hi"}
ChatFiles == {NoFile, "photo.png"}
Fragments == {"Hel", "lo"}

\* text.trim() on the texts above
trim(t) == IF t = " " THEN "" ELSE t

Message(id, t, sender, file) == [id |-> id, text |-> t, sender |-> sender, file |-> file]

\* `file ? { name: file.name, type: file.type } : undefined`
messageFile(file) == IF file = NoFile THEN Undefined ELSE file

\* prev.findIndex(msg => msg.id === id), 0 standing for -1
findIndex(prev, id) ==
    IF \E k \in 1..Len(prev) : prev[k].id = id
    THEN CHOOSE k \in 1..Len(prev) :
            prev[k].id = id /\ \A j \in 1..(k - 1) : prev[j].id # id
    ELSE 0

\* `responseText += chunk`
appendChunk(soFar, chunk) == soFar \o chunk

\* the updater of setMessages in the for await loop
setModelText(prev, id, t) ==
    LET messageIndex == findIndex(prev, id)
    IN  IF messageIndex = 0 THEN prev
        ELSE [prev EXCEPT ![messageIndex] = [prev[messageIndex] EXCEPT !.text = t]]

\* the updater of setMessages in the catch block
setErrorText(prev, id, errorMessage) ==
    [k \in 1..Len(prev) |->
        IF prev[k].id = id THEN [prev[k] EXCEPT !.text = "Error: " \o errorMessage]
        ELSE prev[k]]

\* `err instanceof AIError ? err.message : 'An unexpected error occurred.'`
errorMessageOf(err) ==
    IF err.kind = "AIError" THEN err.message ELSE "An unexpected error occurred."

\* variant: ChatInput.handleSend without the isLoading test
handleSendReturns_noLoadingTest(loading, t, file) == trim(t) = "" /\ file = NoFile

\* `if (isLoading || (!text.trim() && !file)) return;` of ChatInput.handleSend
\* (isLoading is the prop ChatInterface passes)
handleSendReturns(loading, t, file) == loading \/ (trim(t) = "" /\ file = NoFile)

\* the component as mounted
ChatIdle ==
    /\ messages = <<>> /\ isLoading = FALSE /\ error = Null
    /\ chatPc = "idle" /\ modelMessageId = "" /\ responseText = "" /\ received = <<>>
    /\ streams = 0

\* ChatInput.handleSend and handleSendMessage up to the first next() of the
\* stream.  Date.now() is read twice, for the id of the user message (`time`)
\* and for the id of the model message (`time2`).  It is the wall clock: the
\* code takes whatever it returns, and a reading may repeat an earlier one or
\* lie before it.
HandleSendMessage(t, file, time, time2) ==
    /\ ~handleSendReturns(isLoading, t, file)
    /\ streams' = streams + 1
    /\ Len(messages) < 2 * MaxSends
    /\ error' = Null
    /\ isLoading' = TRUE
    /\ modelMessageId' = ToString(time2 + 1)
    /\ messages' = messages \o << Message(ToString(time), t, "user", messageFile(file)),
                                  Message(ToString(time2 + 1), "", "model", Undefined) >>
    /\ responseText' = ""
    /\ received' = <<>>
    /\ chatPc' = "streaming"
    /\ last' = [NoEvent EXCEPT !.ev = "send", !.api = "chat"]
    /\ UNCHANGED <<localStorage, calls, errArgs, errResult, formBody, formData, streamVars, videoVars, appVars>>

\* one iteration of `for await (const chunk of stream)`
ChatChunk(chunk) ==
    /\ chatPc = "streaming"
    /\ Len(received) < MaxChunks
    /\ received' = Append(received, chunk)
    /\ responseText' = appendChunk(responseText, chunk)
    /\ messages' = setModelText(messages, modelMessageId, appendChunk(responseText, chunk))
    /\ last' = [NoEvent EXCEPT !.ev = "chunk", !.api = "chat"]
    /\ UNCHANGED <<localStorage, calls, errArgs, errResult, formBody, formData, streamVars,
                   isLoading, error, chatPc, modelMessageId, streams, videoVars, appVars>>

\* the stream ends: the loop is left, finally
ChatStreamEnd ==
    /\ chatPc = "streaming"
    /\ streams' = streams - 1
    /\ isLoading' = FALSE
    /\ chatPc' = "idle"
    /\ last' = [NoEvent EXCEPT !.ev = "end", !.api = "chat"]
    /\ UNCHANGED <<localStorage, calls, errArgs, errResult, formBody, formData, streamVars,
                   messages, error, modelMessageId, responseText, received, videoVars, appVars>>

\* the stream throws: catch, finally
ChatStreamError(err) ==
    /\ chatPc = "streaming"
    /\ streams' = streams - 1
    /\ error' = errorMessageOf(err)
    /\ messages' = setErrorText(messages, modelMessageId, errorMessageOf(err))
    /\ isLoading' = FALSE
    /\ chatPc' = "idle"
    /\ last' = [NoEvent EXCEPT !.ev = "fail", !.api = "chat", !.result = err]
    /\ UNCHANGED <<localStorage, calls, errArgs, errResult, formBody, formData, streamVars,
                   modelMessageId, responseText, received, videoVars, appVars>>

(***************************************************************************)
(* VideoAnalyzer: handleAnalysis, suspended at `await analyzeVideoWithAI`, *)
(* and handleCancelAnalysis.  The Analyze button is disabled while         *)
(* isLoading; the handler validates its input itself.                      *)
(***************************************************************************)
NoAnalysis == [pc |-> "idle", api |-> "", sourceType |-> "", manual |-> FALSE]
ZeroProgress == [num |-> 0, den |-> 1]

VideoIdle ==
    /\ videoIsLoading = FALSE /\ videoError = Null /\ analysisResult = Null
    /\ history = <<>> /\ uploadProgress = ZeroProgress
    /\ abortControllerRef = Null /\ analysis = NoAnalysis /\ metadataLoads = 0

\* the inputs of the form: the selected tab, the file and the URL
VideoInputs ==
    [inputType : {"upload", "url"}, videoFile : {Null, "clip.mp4"},
     videoUrl : {"", "https://example.org/v"}, urlError : {Null, "Invalid URL"},
     manual : BOOLEAN]

\* the validation of handleAnalysis: the message it fails with, Null when valid
validationError(input) ==
    IF input.inputType = "upload"
    THEN IF input.videoFile = Null THEN "Please select a video file to upload." ELSE Null
    ELSE IF input.videoUrl = "" \/ input.urlError # Null
         THEN "Please enter a valid video URL." ELSE Null

\* variant: the catch block without its AbortError branch
errorShown_noAbortBranch(err) ==
    IF err.kind = "AIError" THEN err.message ELSE "message of the " \o err.kind

\* the catch block of handleAnalysis: the error it shows
errorShown(err) ==
    IF err.kind = "AbortError" THEN "Video analysis has been cancelled."
    ELSE IF err.kind = "AIError" THEN err.message
    ELSE "message of the " \o err.kind

\* handleAnalysis up to `await analyzeVideoWithAI(...)`, or through its
\* validation return and finally block
HandleAnalysis(input) ==
    /\ ~videoIsLoading
    /\ Len(history) < MaxHistory
    /\ analysisResult' = Null
    /\ uploadProgress' = ZeroProgress
    /\ history' = history
    /\ IF validationError(input) # Null
       THEN /\ videoError' = validationError(input)
            /\ videoIsLoading' = FALSE
            /\ abortControllerRef' = Null
            /\ analysis' = NoAnalysis
            /\ last' = [NoEvent EXCEPT !.ev = "invalid", !.api = "handleAnalysis"]
       ELSE LET source == IF input.inputType = "upload" THEN "file" ELSE "url"
                picked == analyzeVideoWithAI(source, input.inputType = "upload",
                                             input.inputType = "upload")
            IN  /\ videoError' = Null
                /\ videoIsLoading' = TRUE
                /\ abortControllerRef' = "live"
                /\ analysis' = [pc |-> "inflight", api |-> picked.api,
                                sourceType |-> input.inputType, manual |-> input.manual]
                /\ last' = [IssueEvent(picked.api, AuthorizationHeader(getItem), "formdata")
                                EXCEPT !.endpoint = picked.endpoint, !.source = source,
                                       !.onProgressGiven = input.inputType = "upload",
                                       !.signalGiven = input.inputType = "upload"]
    /\ UNCHANGED <<localStorage, calls, errArgs, errResult, formBody, formData, streamVars,
                   chatVars, metadataLoads, appVars>>

\* xhr.upload.onprogress of the upload: onProgress is setUploadProgress
VideoProgress(event) ==
    /\ analysis.pc = "inflight" /\ analysis.api = "postWithProgress"
    /\ uploadProgress' = IF callsOnProgress(event)
                         THEN percentComplete(event.loaded, event.total)
                         ELSE uploadProgress
    /\ last' = [NoEvent EXCEPT !.ev = "progress", !.api = "handleAnalysis"]
    /\ UNCHANGED <<localStorage, calls, errArgs, errResult, formBody, formData, streamVars,
                   chatVars, videoIsLoading, videoError, analysisResult, history,
                   abortControllerRef, analysis, metadataLoads, appVars>>

\* handleAnalysis from the settlement of analyzeVideoWithAI to its end:
\* JSON.parse of the text, the manual transcription, the history entry; the
\* catch block; the finally block
VideoSettle(outcome, body) ==
    LET parsed == outcome = Resolved /\ body.parse
        \* `result.transcription = ...` on a result that is null
        thrown == IF outcome # Resolved THEN outcome
                  ELSE IF ~body.parse THEN RawError("SyntaxError")
                  ELSE IF body.isNull /\ analysis.manual THEN RawError("TypeError")
                  ELSE NoResult
        result == IF body.isNull THEN Null
                  ELSE IF analysis.manual THEN "result with the manual transcription"
                  ELSE "result"
    IN  /\ analysis.pc = "inflight"
        /\ IF thrown = NoResult
           THEN /\ analysisResult' = result
                /\ history' = <<[sourceType |-> analysis.sourceType, result |-> result]>>
                                  \o history
                /\ videoError' = videoError
           ELSE /\ videoError' = errorShown(thrown)
                /\ UNCHANGED <<analysisResult, history>>
        /\ videoIsLoading' = FALSE
        /\ abortControllerRef' = Null
        /\ analysis' = NoAnalysis
        /\ last' = [NoEvent EXCEPT !.ev = "finish", !.api = "handleAnalysis",
                                   !.result = IF thrown = NoResult THEN Resolved ELSE thrown]
        /\ UNCHANGED <<localStorage, calls, errArgs, errResult, formBody, formData,
                       streamVars, chatVars, uploadProgress, metadataLoads, appVars>>

\* the load event of the upload.  When xhr.onload throws (JSON null error
\* body) the promise never settles and handleAnalysis stays at its await.
VideoUploadLoad(status, body, statusText) ==
    /\ analysis.api = "postWithProgress"
    /\ IF onload(status, body, statusText) = NoResult
       THEN /\ analysis.pc = "inflight"
            /\ analysis' = [analysis EXCEPT !.pc = "stuck"]
            /\ last' = [NoEvent EXCEPT !.ev = "throw", !.api = "handleAnalysis",
                                       !.status = status]
            /\ UNCHANGED <<localStorage, calls, errArgs, errResult, formBody, formData,
                           streamVars, chatVars, videoIsLoading, videoError, analysisResult,
                           history, uploadProgress, abortControllerRef, metadataLoads, appVars>>
       ELSE VideoSettle(onload(status, body, statusText), body)

\* the error event of the upload
VideoUploadError ==
    /\ analysis.api = "postWithProgress"
    /\ VideoSettle(onerror, NotJson)

\* the response of the fetch of postFormData
VideoFormResponse(status, body, statusText) ==
    /\ analysis.api = "postFormData"
    /\ VideoSettle(postFormData(status, body, statusText).result, body)

\* the fetch of postFormData rejects
VideoFormNoResponse ==
    /\ analysis.api = "postFormData"
    /\ VideoSettle(fetchRejected.result, NotJson)

\* handleCancelAnalysis: abort() on the controller of the ref.  With an upload
\* in flight the listener ends it and the AbortError runs the catch and the
\* finally block; nothing listens to the signal of a call run by postFormData
\* or of an XMLHttpRequest that has ended.
HandleCancelAnalysis ==
    /\ abortControllerRef # Null
    /\ IF abortControllerRef = "live" /\ analysis.pc = "inflight"
          /\ analysis.api = "postWithProgress"
       THEN /\ videoError' = errorShown(onabort)
            /\ videoIsLoading' = FALSE
            /\ abortControllerRef' = Null
            /\ analysis' = NoAnalysis
            /\ last' = [NoEvent EXCEPT !.ev = "cancel", !.api = "handleAnalysis",
                                       !.result = onabort]
       ELSE /\ abortControllerRef' = "aborted"
            /\ last' = [NoEvent EXCEPT !.ev = "cancel", !.api = "handleAnalysis"]
            /\ UNCHANGED <<videoIsLoading, videoError, analysis>>
    /\ UNCHANGED <<localStorage, calls, errArgs, errResult, formBody, formData, streamVars,
                   chatVars, analysisResult, history, uploadProgress, metadataLoads, appVars>>

\* handleFileChange: with a file picked, the result and the error shown are
\* cleared and a video element starts loading the metadata of the file
HandleFileChange(file) ==
    /\ metadataLoads < MaxPending
    /\ IF file # Null
       THEN /\ analysisResult' = Null
            /\ videoError' = Null
            /\ metadataLoads' = metadataLoads + 1
       ELSE UNCHANGED <<analysisResult, videoError, metadataLoads>>
    /\ last' = [NoEvent EXCEPT !.ev = "fileChange", !.api = "handleFileChange"]
    /\ UNCHANGED <<localStorage, calls, errArgs, errResult, formBody, formData, streamVars,
                   chatVars, videoIsLoading, history, uploadProgress, abortControllerRef,
                   analysis, appVars>>

\* video.onloadedmetadata of handleFileChange: setVideoMetadata only
VideoMetadataLoaded ==
    /\ metadataLoads > 0
    /\ metadataLoads' = metadataLoads - 1
    /\ last' = [NoEvent EXCEPT !.ev = "metadata", !.api = "handleFileChange"]
    /\ UNCHANGED <<localStorage, calls, errArgs, errResult, formBody, formData, streamVars,
                   chatVars, videoIsLoading, videoError, analysisResult, history,
                   uploadProgress, abortControllerRef, analysis, appVars>>

\* video.onerror of handleFileChange
VideoMetadataError ==
    /\ metadataLoads > 0
    /\ metadataLoads' = metadataLoads - 1
    /\ videoError' = "Could not read video metadata. The file may be corrupt or in an unsupported format."
    /\ last' = [NoEvent EXCEPT !.ev = "metadataError", !.api = "handleFileChange"]
    /\ UNCHANGED <<localStorage, calls, errArgs, errResult, formBody, formData, streamVars,
                   chatVars, videoIsLoading, analysisResult, history,
                   uploadProgress, abortControllerRef, analysis, appVars>>

\* loadFromHistory(item), item the k-th entry of the list shown
LoadFromHistory(k) ==
    /\ k \in 1..Len(history)
    /\ analysisResult' = history[k].result
    /\ last' = [NoEvent EXCEPT !.ev = "load", !.api = "loadFromHistory"]
    /\ UNCHANGED <<localStorage, calls, errArgs, errResult, formBody, formData, streamVars,
                   chatVars, videoIsLoading, videoError, history, uploadProgress,
                   abortControllerRef, analysis, metadataLoads, appVars>>

\* clearHistory; its button is disabled while the history is empty
ClearHistory ==
    /\ history # <<>>
    /\ history' = <<>>
    /\ last' = [NoEvent EXCEPT !.ev = "clear", !.api = "clearHistory"]
    /\ UNCHANGED <<localStorage, calls, errArgs, errResult, formBody, formData, streamVars,
                   chatVars, videoIsLoading, videoError, analysisResult, uploadProgress,
                   abortControllerRef, analysis, metadataLoads, appVars>>

(***************************************************************************)
(* AppProvider: the session validation of its mount effect, login, logout, *)
(* the user administration, the effect on currentUser that fetches or      *)
(* clears the admin data.  The functions of the context can be called at   *)
(* any time; a continuation runs in the step in which its response         *)
(* arrives; a state setter changes the state only, and the effect on       *)
(* currentUser runs in the later step in which React renders.              *)
(***************************************************************************)
AppUsers == {"admin", "u1"}
\* the administrator after an update that gave it the role USER
Demoted == "admin as USER"
\* user.role
Role(u) == IF u = "admin" THEN "ADMIN" ELSE "USER"
\* user.id
Id(u) == IF u = Demoted THEN "admin" ELSE u

NoValidation == [pc |-> "none", token |-> Null]

\* no AppProvider mounted
AppIdle ==
    /\ currentUser = Null /\ isLoadingUser = FALSE /\ users = <<>>
    /\ validation = NoValidation /\ logins = 0 /\ adminFetches = 0
    /\ renderedUser = Null /\ userFresh = FALSE /\ adminOps = <<>>

\* the user a resolved request of the session service carries (null for JSON null)
UserOf(value) == IF value.isNull \/ ~Truthy(value.user) THEN Null ELSE value.user

\* variant: validateSession without its last statement
validateSession_keepsLoading(user) == [currentUser |-> user, isLoadingUser |-> TRUE]

\* validateSession after `await authService.getCurrentUser()`
validateSession(user) == [currentUser |-> user, isLoadingUser |-> FALSE]

\* variant: the login of the context clearing currentUser when login rejects
appLogin_clearsOnFailure(end, user) ==
    IF end.result = Resolved THEN UserOf(end.value) ELSE Null

\* the login of the context after `await authService.login(...)`:
\* setCurrentUser(user) unless the await threw
appLogin(end, user) ==
    IF end.result = Resolved THEN UserOf(end.value) ELSE user

\* the effect on [currentUser] runs at a render whose currentUser is another
\* value or object than the one of the render before
effectRuns(rendered, user, fresh) == IF user = Null THEN rendered # Null ELSE fresh
\* `if (currentUser?.role === 'ADMIN')`
isAdmin(user) == user # Null /\ Role(user) = "ADMIN"

requestsPending ==
    logins + adminFetches + Len(adminOps) + (IF validation.pc = "pending" THEN 1 ELSE 0)

\* setCurrentUser(new): the state is replaced; a user is a new object
SetCurrentUser(new) ==
    /\ currentUser' = new
    /\ userFresh' = (new # Null)

\* React renders after setCurrentUser and runs the effect on [currentUser]:
\* fetchAdminData() up to its await for an administrator, setUsers([]) otherwise
Render ==
    /\ effectRuns(renderedUser, currentUser, userFresh)
    /\ renderedUser' = currentUser
    /\ userFresh' = FALSE
    /\ IF isAdmin(currentUser)
       THEN adminFetches' = adminFetches + 1 /\ users' = users
       ELSE adminFetches' = adminFetches /\ users' = <<>>
    /\ last' = [NoEvent EXCEPT !.ev = "render", !.api = "AppProvider"]
    /\ UNCHANGED <<localStorage, calls, errArgs, errResult, formBody, formData, streamVars,
                   chatVars, videoVars, currentUser, isLoadingUser, validation, logins, adminOps>>

\* the mount effect: validateSession up to its await, or to its end when
\* getCurrentUser returns null without a request
ValidateSession ==
    /\ validation.pc = "mount"
    /\ IF ReturnsWithoutRequest(getItem)
       THEN /\ validation' = [pc |-> "done", token |-> Null]
            /\ isLoadingUser' = validateSession(Null).isLoadingUser
            /\ SetCurrentUser(validateSession(Null).currentUser)
            /\ last' = [NoEvent EXCEPT !.ev = "settle", !.api = "getCurrentUser",
                                       !.result = Resolved]
       ELSE /\ validation' = [pc |-> "pending", token |-> getItem]
            /\ isLoadingUser' = TRUE
            /\ last' = IssueEvent("getCurrentUser", AuthorizationHeader(getItem), "none")
            /\ UNCHANGED <<currentUser, userFresh>>
    /\ UNCHANGED <<localStorage, calls, errArgs, errResult, formBody, formData, streamVars,
                   chatVars, videoVars, users, logins, adminFetches, renderedUser, adminOps>>

\* the profile request of validateSession settles: getCurrentUser's try or
\* catch, then the rest of validateSession
ValidateSettle(outcome, status) ==
    LET end == getCurrentUser(outcome, localStorage)
        after == validateSession(UserOf(end.value))
    IN  /\ validation.pc = "pending"
        /\ validation' = [validation EXCEPT !.pc = "done"]
        /\ localStorage' = end.storage
        /\ isLoadingUser' = after.isLoadingUser
        /\ SetCurrentUser(after.currentUser)
        /\ last' = [NoEvent EXCEPT !.ev = "settle", !.api = "getCurrentUser",
                                   !.network = TRUE, !.status = status,
                                   !.result = end.result, !.value = end.value,
                                   !.requestResult = outcome.result]
        /\ UNCHANGED <<calls, errArgs, errResult, formBody, formData, streamVars,
                   chatVars, videoVars, users, logins, adminFetches, renderedUser, adminOps>>

\* login of the context up to the await of the request of authService.login
AppLogin ==
    /\ validation.pc # "mount"
    /\ requestsPending < MaxPending
    /\ logins' = logins + 1
    /\ last' = IssueEvent("login", AuthorizationHeader(getItem), BodyOfApi("post"))
    /\ UNCHANGED <<localStorage, calls, errArgs, errResult, formBody, formData, streamVars,
                   chatVars, videoVars, currentUser, isLoadingUser, users, validation,
                   adminFetches, renderedUser, userFresh, adminOps>>

\* the request of a login settles: the rest of authService.login, then of the
\* login of the context
AppLoginSettle(outcome, status) ==
    LET end == login(outcome, localStorage)
        user == appLogin(end, currentUser)
    IN  /\ logins > 0
        /\ logins' = logins - 1
        /\ localStorage' = end.storage
        /\ IF user = currentUser /\ end.result # Resolved
           THEN UNCHANGED <<currentUser, userFresh>>
           ELSE SetCurrentUser(user)
        /\ last' = [NoEvent EXCEPT !.ev = "settle", !.api = "login", !.network = TRUE,
                                   !.status = status, !.result = end.result,
                                   !.value = end.value, !.requestResult = outcome.result]
        /\ UNCHANGED <<calls, errArgs, errResult, formBody, formData, streamVars,
                   chatVars, videoVars, isLoadingUser, users, validation, adminFetches,
                   renderedUser, adminOps>>

\* logout of the context
AppLogout ==
    /\ validation.pc # "mount"
    /\ localStorage' = removeItem
    /\ SetCurrentUser(Null)
    /\ last' = [NoEvent EXCEPT !.ev = "settle", !.api = "logout", !.result = Resolved]
    /\ UNCHANGED <<calls, errArgs, errResult, formBody, formData, streamVars,
                   chatVars, videoVars, isLoadingUser, users, validation, logins, adminFetches,
                   renderedUser, adminOps>>

\* Promise.all of the outcomes of requests that settle in any order: resolved
\* when all resolved, else rejected with the error of the one that rejects first
PromiseAll(outcomes) ==
    IF \A k \in DOMAIN outcomes : outcomes[k].result = Resolved
    THEN {Resolved}
    ELSE { outcomes[k].result : k \in { j \in DOMAIN outcomes : outcomes[j].result # Resolved } }

\* the Promise.all of fetchAdminData settles: setUsers(userList) when its
\* three requests resolved; otherwise the catch logs the error of the request
\* that rejected.  fetchAdminData itself resolves either way.
AdminDataSettle(usersOutcome, aiConfigOutcome, transcriptionConfigOutcome, userList) ==
    /\ adminFetches > 0
    /\ adminFetches' = adminFetches - 1
    /\ \E settled \in PromiseAll(<<usersOutcome, aiConfigOutcome, transcriptionConfigOutcome>>) :
          /\ users' = IF settled = Resolved THEN userList ELSE users
          /\ last' = [NoEvent EXCEPT !.ev = "settle", !.api = "fetchAdminData",
                                     !.network = TRUE, !.result = Resolved,
                                     !.requestResult = settled]
    /\ UNCHANGED <<localStorage, calls, errArgs, errResult, formBody, formData, streamVars,
                   chatVars, videoVars, currentUser, isLoadingUser, validation, logins,
                   renderedUser, userFresh, adminOps>>

\* updateUser, addUser or deleteUser of the context up to the await of its
\* request; they are called from the admin view, which is rendered for an
\* administrator only.  `user.id === currentUser?.id` of updateUser reads the
\* currentUser of the render the callback was made in.
AdminOp(op, user) ==
    /\ isAdmin(renderedUser)
    /\ requestsPending < MaxPending /\ Len(adminOps) < MaxOps
    /\ adminOps' = Append(adminOps,
                          [op |-> op, user |-> user,
                           self |-> op = "updateUser" /\ renderedUser # Null
                                     /\ Id(user) = Id(renderedUser)])
    /\ last' = IssueEvent(op, AuthorizationHeader(getItem),
                          IF op = "deleteUser" THEN "none" ELSE BodyOfApi("post"))
    /\ UNCHANGED <<localStorage, calls, errArgs, errResult, formBody, formData, streamVars,
                   chatVars, videoVars, currentUser, isLoadingUser, users, validation, logins,
                   adminFetches, renderedUser, userFresh>>

\* the request of the k-th updateUser, addUser or deleteUser settles: when it
\* resolved, updateUser sets currentUser to the user it was given if that is
\* the current one, and fetchAdminData() runs up to its await
AdminOpSettle(k, outcome, status) ==
    /\ k \in 1..Len(adminOps)
    /\ adminOps' = SubSeq(adminOps, 1, k - 1) \o SubSeq(adminOps, k + 1, Len(adminOps))
    /\ IF outcome.result = Resolved
       THEN /\ adminFetches' = adminFetches + 1
            /\ IF adminOps[k].self
               THEN SetCurrentUser(adminOps[k].user)
               ELSE UNCHANGED <<currentUser, userFresh>>
       ELSE UNCHANGED <<adminFetches, currentUser, userFresh>>
    /\ last' = [NoEvent EXCEPT !.ev = "settle", !.api = adminOps[k].op, !.network = TRUE,
                               !.status = status, !.result = outcome.result]
    /\ UNCHANGED <<localStorage, calls, errArgs, errResult, formBody, formData, streamVars,
                   chatVars, videoVars, isLoadingUser, users, validation, logins, renderedUser>>

\* updateCurrentUserProfile of the context: authService has no updateProfile,
\* the call throws and the function rejects before any state is set
UpdateCurrentUserProfile ==
    /\ validation.pc # "mount"
    /\ last' = [NoEvent EXCEPT !.ev = "settle", !.api = "updateCurrentUserProfile",
                               !.result = RawError("TypeError")]
    /\ UNCHANGED <<localStorage, calls, errArgs, errResult, formBody, formData, streamVars,
                   chatVars, videoVars, appVars>>

(***************************************************************************)
(* The client and the session service                                      *)
(***************************************************************************)
NoArgs == [copy |-> 0, mode |-> "", status |-> NoStatus, body |-> NotJson, statusText |-> ""]

\* a token of an earlier visit may still be in storage when the page loads
Init ==
    /\ localStorage \in {Null} \cup Tokens
    /\ calls = [i \in CallSlots |-> FreeCall]
    /\ last = NoEvent
    /\ errArgs = NoArgs
    /\ errResult = NoResult
    /\ formBody = <<>>
    /\ formData = <<>>
    /\ StreamIdle
    /\ ChatIdle
    /\ VideoIdle
    /\ AppIdle

DoRequest == \E i \in CallSlots, api \in UnaryApis : Request(i, api)
DoLogin == \E i \in CallSlots : Login(i)
DoRequestResponse ==
    \E i \in CallSlots, status \in Statuses : \E body \in Bodies(calls[i].caller, status) :
        RequestResponse(i, status, body, LiveStatusText)
DoRequestNoResponse == \E i \in CallSlots : RequestNoResponse(i)
DoPostFormData == \E i \in CallSlots : PostFormData(i)
DoPostFormDataResponse ==
    \E i \in CallSlots, status \in Statuses : \E body \in Bodies(calls[i].caller, status) :
        PostFormDataResponse(i, status, body, LiveStatusText)
DoPostFormDataNoResponse == \E i \in CallSlots : PostFormDataNoResponse(i)
DoStream == \E i \in CallSlots : Stream(i)
DoStreamStart == \E i \in CallSlots : StreamStart(i)
DoStreamResponse ==
    \E i \in CallSlots, status \in Statuses, hasBody \in BOOLEAN :
        \E body \in Bodies(calls[i].caller, status) : StreamResponse(i, status, hasBody, body, LiveStatusText)
DoStreamNoResponse == \E i \in CallSlots : StreamNoResponse(i)
DoStreamRead == \E i \in CallSlots : StreamRead(i)
DoStreamDone == \E i \in CallSlots : StreamDone(i)
DoStreamReadError == \E i \in CallSlots : StreamReadError(i)
DoPostWithProgress == \E i \in CallSlots, signalAborted \in BOOLEAN : postWithProgress(i, signalAborted)
DoUploadProgress == \E i \in CallSlots, event \in ProgressEvents : UploadProgress(i, event)
DoUploadLoad ==
    \E i \in CallSlots, status \in Statuses : \E body \in Bodies(calls[i].caller, status) :
        UploadLoad(i, status, body, LiveStatusText)
DoUploadError == \E i \in CallSlots : UploadError(i)
DoAbort == \E i \in CallSlots : Abort(i)
DoAnalyzeVideoWithAI ==
    \E i \in CallSlots, source \in {"file", "url"},
       onProgressGiven \in BOOLEAN, signalGiven \in BOOLEAN, signalAborted \in BOOLEAN :
        AnalyzeVideoWithAI(i, source, onProgressGiven, signalGiven, signalAborted)

Next ==
    \/ DoRequest
    \/ DoLogin
    \/ GetCurrentUser
    \/ Logout
    \/ DoRequestResponse
    \/ DoRequestNoResponse
    \/ DoPostFormData
    \/ DoPostFormDataResponse
    \/ DoPostFormDataNoResponse
    \/ DoStream
    \/ DoStreamStart
    \/ DoStreamResponse
    \/ DoStreamNoResponse
    \/ DoStreamRead
    \/ DoStreamDone
    \/ DoStreamReadError
    \/ DoPostWithProgress
    \/ DoUploadProgress
    \/ DoUploadLoad
    \/ DoUploadError
    \/ DoAbort
    \/ DoAnalyzeVideoWithAI

Spec == Init /\ [][Next]_vars


(***************************************************************************)
(* The error mapping as a function of the failed response, in both copies  *)
(* of the client and in each request mode                                  *)
(***************************************************************************)
FailStatuses == 300..599
ErrModes == {"request", "postFormData", "stream", "postWithProgress"}

InitErr ==
    /\ errArgs \in [copy : {1, 2}, mode : ErrModes, status : FailStatuses,
                    body : ErrorBodies, statusText : StatusTexts]
    /\ errResult = NoResult
    /\ localStorage = Null
    /\ calls = [i \in CallSlots |-> FreeCall]
    /\ last = NoEvent
    /\ formBody = <<>>
    /\ formData = <<>>
    /\ StreamIdle
    /\ ChatIdle
    /\ VideoIdle
    /\ AppIdle

\* the failed response is turned into the error the call throws
ApplyError ==
    /\ last.ev = "init"
    /\ errResult' = IF errArgs.mode = "postWithProgress"
                     THEN UploadResponseError(errArgs.copy, errArgs.status,
                                              errArgs.body, errArgs.statusText)
                     ELSE ResponseError(errArgs.copy, errArgs.mode, errArgs.status,
                                        errArgs.body, errArgs.statusText)
    /\ last' = [NoEvent EXCEPT !.ev = "error", !.api = errArgs.mode, !.status = errArgs.status]
    /\ UNCHANGED <<localStorage, calls, errArgs, formBody, formData, streamVars, chatVars, videoVars, appVars>>

NextErr == ApplyError

SpecErr == InitErr /\ [][NextErr]_vars

(***************************************************************************)
(* buildFormData on every field mapping of up to MaxFields entries         *)
(***************************************************************************)
InitForm ==
    /\ formBody \in { m \in FieldMappings(MaxFields) : DistinctKeys(m) }
    /\ formData = <<>>
    /\ localStorage = Null
    /\ calls = [i \in CallSlots |-> FreeCall]
    /\ last = NoEvent
    /\ errArgs = NoArgs
    /\ errResult = NoResult
    /\ StreamIdle
    /\ ChatIdle
    /\ VideoIdle
    /\ AppIdle

BuildFormData ==
    /\ last.ev = "init"
    /\ formData' = buildFormData(formBody)
    /\ last' = [NoEvent EXCEPT !.ev = "built", !.bodyKind = "formdata"]
    /\ UNCHANGED <<localStorage, calls, errArgs, errResult, formBody, streamVars, chatVars, videoVars, appVars>>

\* an operation of apiClient encodes the mapping as its request body
EncodeBody(op) ==
    /\ last.ev = "init"
    /\ LET body == RequestBody(op, formBody)
       IN  /\ formData' = body.parts
           /\ last' = [NoEvent EXCEPT !.ev = "encoded", !.api = op, !.bodyKind = body.kind,
                                      !.contentType = RequestContentType(op, body.kind)]
    /\ UNCHANGED <<localStorage, calls, errArgs, errResult, formBody, streamVars, chatVars, videoVars, appVars>>

DoEncodeBody == \E op \in ClientOps : EncodeBody(op)

NextForm == BuildFormData \/ DoEncodeBody

SpecForm == InitForm /\ [][NextForm]_vars

(***************************************************************************)
(* The reading loop of stream() on every text of up to MaxChars characters *)
(* cut into packets in every way, from the acquisition of the reader       *)
(***************************************************************************)
RECURSIVE Texts(_)
Texts(n) ==
    IF n = 0 THEN { <<>> }
    ELSE Texts(n - 1) \cup
         { Append(t, c) : t \in { x \in Texts(n - 1) : Len(x) = n - 1 }, c \in Chars }

\* bodies that are not the UTF-8 of a text: an overlong form, a surrogate, a
\* sequence broken by an ASCII byte, a body that ends inside a character, a
\* byte that starts no sequence
MalformedBodies ==
    { <<224, 128, 128>>, <<237, 160, 128>>, <<226, 130, 97>>, <<240, 159, 152>>, <<255, 97>> }

\* the bodies a server sends: the UTF-8 of a text, or bytes that are not UTF-8
StreamBodies == { Utf8Text(t) : t \in Texts(MaxChars) } \cup MalformedBodies

\* `response.body.pipeThrough(new TextDecoderStream()).getReader()`
InitStream ==
    /\ responseBody \in StreamBodies
    /\ wire = responseBody
    /\ packets = <<>>
    /\ incoming = <<>>
    /\ transport = "open"
    /\ decoderPending = <<>> /\ bomSeen = FALSE /\ readable = <<>> /\ enqueued = <<>>
    /\ fragments = <<>>
    /\ gen = "reading"
    /\ readerLock = "locked"
    /\ localStorage = Null
    /\ calls = [i \in CallSlots |-> FreeCall]
    /\ last = NoEvent
    /\ errArgs = NoArgs
    /\ errResult = NoResult
    /\ formBody = <<>>
    /\ formData = <<>>
    /\ ChatIdle
    /\ VideoIdle
    /\ AppIdle

DoNetworkChunk == \E n \in 1..(4 * MaxChars) : NetworkChunk(n)

NextStream ==
    \/ DoNetworkChunk
    \/ NetworkEnd
    \/ NetworkError
    \/ ReaderRead
    \/ ReaderDone
    \/ ReaderError
    \/ ConsumerNext
    \/ ConsumerReturn

SpecStream == InitStream /\ [][NextStream]_vars

(***************************************************************************)
(* The chat: sends one after the other, each consuming its stream          *)
(***************************************************************************)
InitChat ==
    /\ ChatIdle
    /\ VideoIdle
    /\ AppIdle
    /\ StreamIdle
    /\ localStorage = Null
    /\ calls = [i \in CallSlots |-> FreeCall]
    /\ last = NoEvent
    /\ errArgs = NoArgs
    /\ errResult = NoResult
    /\ formBody = <<>>
    /\ formData = <<>>

StreamErrors == { AIError(ServerMessage, "network"), RawError("TypeError") }

\* the values Date.now() returns
ClockReadings == 1..MaxClock

DoHandleSendMessage ==
    \E t \in ChatTexts, file \in ChatFiles, time \in ClockReadings, time2 \in ClockReadings :
        HandleSendMessage(t, file, time, time2)
DoChatChunk == \E chunk \in Fragments : ChatChunk(chunk)
DoChatStreamError == \E err \in StreamErrors : ChatStreamError(err)

NextChat ==
    \/ DoHandleSendMessage
    \/ DoChatChunk
    \/ ChatStreamEnd
    \/ DoChatStreamError

SpecChat == InitChat /\ [][NextChat]_vars

(***************************************************************************)
(* The video analyzer: analyses one after the other, each cancellable      *)
(***************************************************************************)
\* the histories an earlier visit may have saved under "videoAnalysisHistory"
SavedHistories == { <<>>, <<[sourceType |-> "url", result |-> "result"]>> }

\* VideoAnalyzer as mounted: the history is the one saved in localStorage
InitVideo ==
    /\ videoIsLoading = FALSE /\ videoError = Null /\ analysisResult = Null
    /\ history \in SavedHistories /\ uploadProgress = ZeroProgress
    /\ abortControllerRef = Null /\ analysis = NoAnalysis /\ metadataLoads = 0
    /\ AppIdle
    /\ ChatIdle
    /\ StreamIdle
    /\ localStorage \in {Null} \cup Tokens
    /\ calls = [i \in CallSlots |-> FreeCall]
    /\ last = NoEvent
    /\ errArgs = NoArgs
    /\ errResult = NoResult
    /\ formBody = <<>>
    /\ formData = <<>>

\* the bodies of a response to an analysis: a result, JSON null, not JSON
VideoBodies(status) ==
    IF Ok(status) THEN {JsonObject(Undefined, Undefined, Undefined), JsonNull, NotJson}
    ELSE LiveErrorBodies

DoHandleAnalysis == \E input \in VideoInputs : HandleAnalysis(input)
DoVideoProgress == \E event \in ProgressEvents : VideoProgress(event)
DoVideoUploadLoad ==
    \E status \in Statuses : \E body \in VideoBodies(status) :
        VideoUploadLoad(status, body, LiveStatusText)
DoVideoFormResponse ==
    \E status \in Statuses : \E body \in VideoBodies(status) :
        VideoFormResponse(status, body, LiveStatusText)

DoHandleFileChange == \E file \in {Null, "clip.mp4"} : HandleFileChange(file)
DoLoadFromHistory == \E k \in 1..MaxHistory : LoadFromHistory(k)

NextVideo ==
    \/ DoHandleAnalysis
    \/ DoVideoProgress
    \/ DoVideoUploadLoad
    \/ VideoUploadError
    \/ DoVideoFormResponse
    \/ VideoFormNoResponse
    \/ HandleCancelAnalysis
    \/ DoHandleFileChange
    \/ VideoMetadataLoaded
    \/ VideoMetadataError
    \/ DoLoadFromHistory
    \/ ClearHistory

SpecVideo == InitVideo /\ [][NextVideo]_vars

(***************************************************************************)
(* AppProvider from its mount                                              *)
(***************************************************************************)
InitApp ==
    /\ currentUser = Null /\ isLoadingUser = TRUE /\ users = <<>>
    /\ validation = [pc |-> "mount", token |-> Null]
    /\ logins = 0 /\ adminFetches = 0
    /\ renderedUser = Null /\ userFresh = FALSE /\ adminOps = <<>>
    /\ VideoIdle
    /\ ChatIdle
    /\ StreamIdle
    /\ localStorage \in {Null} \cup Tokens
    /\ calls = [i \in CallSlots |-> FreeCall]
    /\ last = NoEvent
    /\ errArgs = NoArgs
    /\ errResult = NoResult
    /\ formBody = <<>>
    /\ formData = <<>>

\* the bodies of a response to login and to the profile request
AppBodies(caller, status) ==
    IF status = 204 THEN {NotJson}
    ELSE IF ~Ok(status) THEN LiveErrorBodies
    ELSE IF caller = "login"
    THEN { JsonObject(Undefined, t, u) : t \in Tokens, u \in AppUsers } \cup
         { JsonObject(Undefined, "t1", Undefined), JsonObject(Undefined, Undefined, "u1"),
           JsonNull, NotJson }
    ELSE { UserObject(u) : u \in AppUsers } \cup {JsonNull, NotJson}

UserLists == { <<>>, <<"admin", "u1">> }

\* a response arrives for the pending profile request
DoValidateResponse ==
    \E status \in Statuses : \E body \in AppBodies("getCurrentUser", status) :
        /\ validation.pc = "pending"
        /\ ValidateSettle(request(status, body, LiveStatusText), status)
ValidateNoResponse == ValidateSettle(fetchRejected, NoStatus)
\* a response arrives for a pending login request
DoAppLoginResponse ==
    \E status \in Statuses : \E body \in AppBodies("login", status) :
        /\ logins > 0
        /\ AppLoginSettle(request(status, body, LiveStatusText), status)
AppLoginNoResponse == AppLoginSettle(fetchRejected, NoStatus)
\* the answers to a request of fetchAdminData: a JSON document, a body that
\* is not JSON, failed responses, no response
AdminAnswers ==
    { request(200, JsonObject(Undefined, Undefined, Undefined), LiveStatusText),
      request(200, NotJson, LiveStatusText),
      request(401, NotJson, LiveStatusText),
      request(500, JsonObject(ServerMessage, Undefined, Undefined), LiveStatusText),
      fetchRejected }

DoAdminDataSettle ==
    \E usersOutcome \in AdminAnswers, aiConfigOutcome \in AdminAnswers,
       transcriptionConfigOutcome \in AdminAnswers, userList \in UserLists :
        AdminDataSettle(usersOutcome, aiConfigOutcome, transcriptionConfigOutcome, userList)

\* the users a call of updateUser is given, and the calls of the administration
UpdatedUsers == AppUsers \cup {Demoted}
AdminCalls ==
    { <<"updateUser", u>> : u \in UpdatedUsers } \cup { <<"addUser", "u1">>, <<"deleteUser", "u1">> }
DoAdminOp == \E call \in AdminCalls : AdminOp(call[1], call[2])
DoAdminOpResponse ==
    \E k \in 1..MaxOps, status \in {200, 500} :
        \E body \in (IF Ok(status) THEN {UserObject("u1"), NotJson} ELSE LiveErrorBodies) :
            /\ k \in 1..Len(adminOps)
            /\ AdminOpSettle(k, request(status, body, LiveStatusText), status)
AdminOpNoResponse == \E k \in 1..MaxOps : AdminOpSettle(k, fetchRejected, NoStatus)

NextApp ==
    \/ ValidateSession
    \/ DoValidateResponse
    \/ ValidateNoResponse
    \/ AppLogin
    \/ DoAppLoginResponse
    \/ AppLoginNoResponse
    \/ AppLogout
    \/ DoAdminDataSettle
    \/ Render
    \/ DoAdminOp
    \/ DoAdminOpResponse
    \/ AdminOpNoResponse
    \/ UpdateCurrentUserProfile

SpecApp == InitApp /\ [][NextApp]_vars

\* the mount effect runs, and the transport answers the profile request or fails
SpecAppFair ==
    /\ SpecApp
    /\ WF_vars(ValidateSession)
    /\ WF_vars(DoValidateResponse \/ ValidateNoResponse)
    /\ WF_vars(Render)


(***************************************************************************)
(* Properties                                                              *)
(***************************************************************************)
\* the category the error taxonomy assigns to a non-success status
TaxonomyCategory(status) ==
    IF status \in {401, 403} THEN "api_key"
    ELSE IF status = 400 THEN "generic" ELSE "network"

\* C1: every typed error built from a failed response has the category of the
\* taxonomy for its status (401, 403: credential; 400: generic; any other:
\* network), whatever the body and the same in request, postFormData and stream.
C1_CategoryByStatus ==
    (last.ev = "error" /\ errArgs.mode \in {"request", "postFormData", "stream"}
        /\ errResult.kind = "AIError")
        => errResult.type = TaxonomyCategory(errArgs.status)

\* C2 as stated: a unary request (get, post, put, delete, putFormData) whose
\* response has status 204 resolves with null and the body is not parsed; the
\* body is parsed as JSON only for a success status other than 204.
C2_NoContent ==
    (last.ev = "settle" /\ last.api \in UnaryApis)
        => /\ last.status = 204
                => last.result = Resolved /\ last.value = JsonNull /\ ~last.parsed
           /\ last.parsed => Ok(last.status) /\ last.status # 204

\* C2: a unary request whose response has status 204 resolves with null and
\* the body is not parsed; the body of a response with any other status is
\* parsed as JSON, for the result when the status is a success and for the
\* message of the error when it is not; without a response nothing is parsed.
C2_NoContentUnparsed ==
    (last.ev = "settle" /\ last.api \in UnaryApis)
        => /\ last.status = 204
                => last.result = Resolved /\ last.value = JsonNull /\ ~last.parsed
           /\ last.parsed <=> (last.status # NoStatus /\ last.status # 204)
           /\ (last.parsed /\ ~Ok(last.status)) => last.result # Resolved

C2_Witness ==
    /\ last.ev = "settle" /\ last.api = "putFormData"
    /\ last.status = 204 /\ last.result = Resolved /\ last.value = JsonNull
    /\ ~last.parsed

\* C3: a stream whose initial response has a non-success status or no body
\* fails with a typed AIError, having yielded nothing and without acquiring
\* the body reader.
C3_FailsBeforeFirstYield ==
    (last.ev = "settle" /\ last.api = "stream" /\ last.status # NoStatus
        /\ (~Ok(last.status) \/ ~last.hasBody))
        => last.result.kind = "AIError" /\ last.yielded = 0 /\ ~last.readerAcquired

\* C4: when the signal of an upload in flight is triggered, the transfer ends
\* in that step and the promise is rejected with the AbortError, not with an
\* AIError and not resolved; no upload stays in flight after its signal fired,
\* so no progress event follows the abort.
C4_AbortInFlight ==
    [][ \A i \in CallSlots :
          (/\ calls[i].mode = "postWithProgress" /\ calls[i].phase = "sent"
           /\ calls[i].signal = "live"
           /\ last'.ev = "abort" /\ calls'[i] # calls[i])
          => /\ last'.result.kind = "AbortError"
             /\ calls'[i].mode = "free"
             /\ \A j \in CallSlots : j # i => calls'[j] = calls[j] ]_vars

C4_Witness ==
    /\ last.ev = "abort" /\ last.result.kind = "AbortError"
    /\ \A i \in CallSlots : calls[i].mode # "postWithProgress"

\* C5: the progress callback is invoked exactly for the progress events whose
\* total is known, with 100 * loaded / total, a value between 0 and 100; no
\* other step of the client invokes the callback.
C5_Progress ==
    /\ last.ev # "progress" => ~last.onProgress
    /\ last.ev = "progress" =>
         /\ last.onProgress <=> last.lengthComputable
         /\ last.onProgress =>
              /\ last.percentComplete.num * last.total
                     = 100 * last.loaded * last.percentComplete.den
              /\ last.percentComplete.den > 0
              /\ 0 <= last.percentComplete.num
              /\ last.percentComplete.num <= 100 * last.percentComplete.den

C5_Witness ==
    /\ last.ev = "progress" /\ last.onProgress
    /\ last.loaded = 1 /\ last.total = 2
    /\ last.percentComplete.num = 50 * last.percentComplete.den

\* the parts of the multipart body that carry a field name
PartsNamed(key) == { k \in 1..Len(formData) : formData[k].name = key }

\* C6: buildFormData adds no part for a field whose value is null or undefined
\* and exactly one part for a field with any other value, false, 0 and the
\* empty string included.
C6_NullFieldsOmitted ==
    last.ev = "built" =>
        \A k \in 1..Len(formBody) :
            IF formBody[k].value.type \in {"null", "undefined"}
            THEN PartsNamed(formBody[k].key) = {}
            ELSE Cardinality(PartsNamed(formBody[k].key)) = 1

C6_Witness ==
    /\ last.ev = "built" /\ Len(formBody) = 2
    /\ formBody[1].value.type = "null"
    /\ formBody[2].value = Value("string", FALSE, 0, "")
    /\ formData = << [name |-> formBody[2].key, kind |-> "text", value |-> ""] >>

\* C7: a request leaving the client in any mode carries `Bearer <token>` with
\* the token stored at that moment, and no Authorization header exactly when
\* no token is stored.
C7_BearerHeader ==
    last.ev = "issue" =>
        /\ localStorage # Null => last.header = "Bearer " \o localStorage
        /\ last.header = Null <=> localStorage = Null

C7_Witness ==
    /\ last.ev = "issue" /\ last.api = "postWithProgress"
    /\ localStorage = "t2" /\ last.header = "Bearer t2"
    /\ \E i \in CallSlots : calls[i].mode = "stream" /\ calls[i].phase = "pending"

\* a step in which login resolves with the user of a response {token, user}
LoginSucceeds == last'.ev = "settle" /\ last'.api = "login" /\ last'.result = Resolved

\* a step that changes or removes a stored token
TokenLost == localStorage # Null /\ localStorage' # localStorage

\* a step sending a request with the stored token as its bearer
SendsStoredToken ==
    (last'.ev = "issue" /\ localStorage # Null) => last'.header = "Bearer " \o localStorage

\* C8 as stated: login stores the token of the response, requests carry it,
\* and it stays until a logout or a later successful login.
C8_TokenUntilLogoutOrLogin ==
    [][ /\ LoginSucceeds => localStorage' = last'.value.token
        /\ SendsStoredToken
        /\ TokenLost => (last'.api = "logout" \/ LoginSucceeds) ]_vars

\* C8: login stores the token of the response, requests carry it, and it
\* stays until a logout, a later successful login, or a getCurrentUser whose
\* profile request failed.
C8_TokenUntilRemoved ==
    [][ /\ LoginSucceeds => localStorage' = last'.value.token
        /\ SendsStoredToken
        /\ TokenLost => (last'.api \in {"logout", "getCurrentUser"} \/ LoginSucceeds) ]_vars

C8_Witness ==
    /\ last.ev = "settle" /\ last.api = "login" /\ last.result = Resolved
    /\ last.value.token = "t2" /\ localStorage = "t2"

\* a step that starts a call of getCurrentUser (not the arrival of a response)
GetCurrentUserCalled ==
    last'.api = "getCurrentUser" /\ (last'.ev = "issue" \/ calls' = calls) /\ last' # last

\* C9: getCurrentUser called with no token stored returns null without a
\* transport request and without failing; logout leaves no token stored.
C9_NoTokenNoRequest ==
    [][ /\ (GetCurrentUserCalled /\ localStorage = Null)
            => /\ last'.ev = "settle" /\ last'.result = Resolved /\ last'.value = JsonNull
               /\ ~last'.network /\ calls' = calls /\ localStorage' = Null
        /\ last'.api = "logout" => localStorage' = Null ]_vars

C9_Witness ==
    /\ last.ev = "settle" /\ last.api = "getCurrentUser" /\ ~last.network
    /\ last.result = Resolved /\ last.value = JsonNull /\ localStorage = Null

\* a step delivering the failure of a request answered with 401 or 403
AuthFailureDelivered == last'.ev = "settle" /\ last'.status \in {401, 403}

\* C10 as stated: after any request failed with 401 or 403, no token is stored.
C10_TokenDeletedOnAuthFailure ==
    [][ AuthFailureDelivered => localStorage' = Null ]_vars

\* C10: the token is deleted when the profile request of getCurrentUser fails,
\* with 401, 403 or otherwise; a 401 or 403 failure of any other request
\* leaves the stored token as it was.
C10_TokenDeletedByGetCurrentUser ==
    [][ /\ (last'.ev = "settle" /\ last'.api = "getCurrentUser" /\ last'.network
              /\ last'.requestResult # Resolved)
            => localStorage' = Null
        /\ (AuthFailureDelivered /\ last'.api # "getCurrentUser")
            => localStorage' = localStorage ]_vars

C10_Witness ==
    /\ last.ev = "settle" /\ last.api = "get" /\ last.status = 401
    /\ last.result.kind = "AIError" /\ last.result.type = "api_key"
    /\ localStorage = "t1"

\* the calls in flight: a transport request was sent and no outcome delivered yet
InFlight(call) == call.phase \in {"pending", "reading", "sent"}

\* C11: no retry.  A step sends a transport request only by starting one call
\* (a call in flight never sends a second one), and a call in flight ends only
\* by delivering one outcome to its caller: a settled promise or a finished
\* generator; for an upload one of the load, error and abort outcomes.
C11_OneRequestOneOutcome ==
    [][ /\ last'.ev = "issue" =>
              /\ Cardinality({ i \in CallSlots : calls'[i] # calls[i] }) = 1
              /\ \A i \in CallSlots :
                    calls'[i] # calls[i] => ~InFlight(calls[i]) /\ InFlight(calls'[i])
        /\ \A i \in CallSlots :
              (InFlight(calls[i]) /\ ~InFlight(calls'[i]))
                  => /\ calls'[i] = FreeCall
                     /\ last'.ev \in {"settle", "abort"}
                     /\ last'.result # NoResult ]_vars

\* C12: a response with a non-success status, whatever its body, makes
\* request, postFormData and stream fail with a typed AIError of one of the
\* three categories; the call never resolves and never fails with a raw error.
C12_FailedResponseTypedError ==
    (last.ev = "settle" /\ last.api \in UnaryApis \cup {"postFormData", "stream"}
        /\ last.status # NoStatus /\ ~Ok(last.status))
        => /\ last.result.kind = "AIError"
           /\ last.result.type \in {"api_key", "generic", "network"}

\* C13: a step that triggers the signal of one upload changes that upload
\* only: every other call, the other uploads in flight included, stays as it
\* is, in flight with its own signal, and ends later by its own outcome.
C13_AbortScopedToOneCall ==
    [][ last'.ev = "abort" =>
          /\ Cardinality({ i \in CallSlots : calls'[i] # calls[i] }) = 1
          /\ \A i \in CallSlots :
                calls'[i] # calls[i]
                    => calls[i].mode = "postWithProgress" /\ calls[i].signal = "live" ]_vars

C13_Witness ==
    /\ last.ev = "abort" /\ last.result = onabort
    /\ \E i \in CallSlots : /\ calls[i].mode = "postWithProgress" /\ calls[i].phase = "sent"
                             /\ calls[i].signal = "live"
    /\ \E i \in CallSlots : calls[i] = FreeCall

\* C14: the load event of an upload resolves the promise, without parsing,
\* exactly when the status is in 200..299, and for every other status rejects
\* it with an AIError of the category the taxonomy gives that status.
C14_UploadOutcomeByStatus ==
    (last.api = "postWithProgress" /\ last.ev \in {"settle", "throw"}
        /\ last.status # NoStatus)
        => IF Ok(last.status)
           THEN last.result = Resolved /\ ~last.parsed
           ELSE /\ last.result.kind = "AIError"
                /\ last.result.type = TaxonomyCategory(last.status)
\* the part the claim gives a field that is not omitted
ClaimedPart(key, value) ==
    CASE value.type = "File" -> [name |-> key, kind |-> "file", value |-> value.s]
      [] value = Value("object", FALSE, 1, "") -> [name |-> key, kind |-> "text", value |-> "{\"a\":1}"]
      [] value = Value("array", FALSE, 1, "") -> [name |-> key, kind |-> "text", value |-> "[1]"]
      [] value = Value("boolean", TRUE, 0, "") -> [name |-> key, kind |-> "text", value |-> "true"]
      [] value = Value("boolean", FALSE, 0, "") -> [name |-> key, kind |-> "text", value |-> "false"]
      [] value = Value("number", FALSE, 0, "") -> [name |-> key, kind |-> "text", value |-> "0"]
      [] value = Value("number", FALSE, 7, "") -> [name |-> key, kind |-> "text", value |-> "7"]
      [] OTHER -> [name |-> key, kind |-> "text", value |-> value.s]

SentFields == { k \in 1..Len(formBody) : formBody[k].value.type \notin {"null", "undefined"} }
Reversed(m) == [k \in 1..Len(m) |-> m[Len(m) + 1 - k]]
PartSet(parts) == { parts[k] : k \in 1..Len(parts) }

\* C17: buildFormData gives every field that is not omitted exactly one part
\* under its name: a file as a binary part with the file itself, another
\* object or an array as its JSON text, a primitive or string as a text part;
\* the set of parts is the same for the mapping iterated in the other order.
C17_PartPerField ==
    last.ev = "built" =>
        /\ Len(formData) = Cardinality(SentFields)
        /\ PartSet(formData)
               = { ClaimedPart(formBody[k].key, formBody[k].value) : k \in SentFields }
        /\ PartSet(buildFormData(Reversed(formBody))) = PartSet(formData)

C17_Witness ==
    /\ last.ev = "built" /\ Len(formBody) = 2
    /\ formBody[1].value.type = "File" /\ formBody[2].value.type = "object"
    /\ formData = << [name |-> formBody[1].key, kind |-> "file", value |-> "clip.mp4"],
                     [name |-> formBody[2].key, kind |-> "text", value |-> "{\"a\":1}"] >>

\* a mapping with a binary file among its values
HasFile(m) == \E k \in 1..Len(m) : m[k].value.type = "File"

\* C18 as stated: a mapping with a file among its values is sent as multipart
\* by every operation given a mapping; a body that is not multipart is one
\* JSON document, and the JSON Content-Type is set exactly for such a body.
C18_EncodingByContent ==
    (last.ev = "encoded" /\ last.api \notin {"get", "delete"}) =>
        /\ HasFile(formBody) => last.bodyKind = "formdata"
        /\ last.bodyKind # "formdata" => last.bodyKind = "json"
        /\ last.contentType = "application/json" <=> last.bodyKind = "json"

\* C18: the encoding is decided by the operation.  post and put send the
\* mapping as one JSON document, a file value in it written as {} and not as
\* binary; putFormData, postFormData, stream and postWithProgress send the
\* multipart body of buildFormData; get and delete send no body.  The JSON
\* Content-Type is set exactly when a body is present and is not multipart.
C18_EncodingByOperation ==
    last.ev = "encoded" =>
        /\ last.api \in {"post", "put"} =>
              /\ last.bodyKind = "json"
              /\ \A k \in 1..Len(formData) : formData[k].kind = "json"
              /\ \A k \in 1..Len(formBody) :
                    formBody[k].value.type = "File" =>
                        [name |-> formBody[k].key, kind |-> "json", value |-> "{}"]
                            \in PartSet(formData)
        /\ last.api \in {"putFormData", "postFormData", "stream", "postWithProgress"} =>
              /\ last.bodyKind = "formdata"
              /\ \A k \in 1..Len(formBody) :
                    formBody[k].value.type = "File" =>
                        [name |-> formBody[k].key, kind |-> "file", value |-> formBody[k].value.s]
                            \in PartSet(formData)
        /\ last.api \in {"get", "delete"} => last.bodyKind = "none"
        /\ last.contentType = "application/json" <=> last.bodyKind = "json"
        /\ last.contentType # "application/json" => last.contentType = Null

C18_Witness ==
    /\ last.ev = "encoded" /\ last.api = "post" /\ HasFile(formBody)
    /\ last.bodyKind = "json" /\ last.contentType = "application/json"
    /\ Len(formData) = 2

\* C19: the message of a typed error built from a failed response is the
\* message of the JSON body when that is not empty; for a body that is not
\* JSON it is the status text when that is not empty; in every other case it
\* is a fallback text.  It is never empty nor undefined.
C19_MessagePrefersServer ==
    (last.ev = "error" /\ errResult.kind = "AIError") =>
        /\ (errArgs.body.parse /\ errArgs.body.message \notin {Undefined, ""})
              => errResult.message = errArgs.body.message
        /\ (~errArgs.body.parse /\ errArgs.statusText # "")
              => errResult.message = errArgs.statusText
        /\ errResult.message \notin {"", Undefined, Null}

C19_Witness ==
    /\ last.ev = "error" /\ errArgs.copy = 2 /\ errArgs.mode = "postWithProgress"
    /\ errArgs.status = 404 /\ errArgs.body = NotJson /\ errArgs.statusText = ""
    /\ errResult = AIError("The requested resource was not found.", "network")
RECURSIVE Concat(_)
Concat(chunks) == IF chunks = <<>> THEN <<>> ELSE Head(chunks) \o Concat(Tail(chunks))

\* C15: the generator yields the decoded chunks one by one in the order the
\* decoder produced them, none dropped, repeated or held back once read; it
\* returns only at the end of the body, having yielded every chunk and
\* nothing else; the reader lock is released however it finishes (end of the
\* body, transport error, consumer stopping early) and held until then.
C15_ChunksInOrder ==
    /\ fragments \o readable = enqueued
    /\ \A k \in 1..Len(fragments) : fragments[k] = enqueued[k] /\ fragments[k] # <<>>
    /\ gen = "done" => transport = "closed" /\ fragments = enqueued
    /\ gen \in {"done", "threw", "returned"} => readerLock = "released"
    /\ gen \in {"reading", "yielded"} => readerLock = "locked"

C15_Witness ==
    /\ gen = "returned" /\ readerLock = "released"
    /\ Len(fragments) = 1 /\ Len(enqueued) = 1 /\ Len(incoming) = 1 /\ transport = "closed"

\* what one TextDecoder gives for the whole body in one piece
decodeWhole(bytes) == serialize(decode(bytes, TRUE).out, FALSE)

\* a text as a string reads it: without a byte order mark at its start
withoutBOM(t) == IF t # <<>> /\ Head(t) = ByteOrderMark THEN Tail(t) ELSE t

\* C16: when the body has ended and every packet is decoded, the
\* concatenation of the decoded chunks is what the whole body decodes to in
\* one piece, however its bytes were cut into packets, a character of 2, 3
\* or 4 bytes cut between two packets included; so is the concatenation of
\* the fragments of a generator that returned at the end of the body.  For a
\* body that is the UTF-8 of a text it is that text (without a byte order
\* mark at its start).
C16_SplitIndependent ==
    /\ transport = "closed" /\ incoming = <<>> => Concat(enqueued) = decodeWhole(responseBody)
    /\ gen = "done" => Concat(fragments) = decodeWhole(responseBody)
    /\ \A t \in Texts(MaxChars) :
          (gen = "done" /\ responseBody = Utf8Text(t)) => Concat(fragments) = withoutBOM(t)

C16_Witness ==
    /\ gen = "done" /\ responseBody = Utf8Text(<<128512, 97>>) /\ packets = <<2, 3>>
    /\ fragments = << <<128512, 97>> >>
RECURSIVE ConcatText(_)
ConcatText(chunks) == IF chunks = <<>> THEN "" ELSE Head(chunks) \o ConcatText(Tail(chunks))

\* C20: a step that delivers a fragment of the send's stream leaves the list
\* with its length and order; the model message of the send, the last of the
\* list, keeps its id, sender and file and has as its text the concatenation
\* of the fragments received so far in their order; the user message of the
\* send and every other message are unchanged.
C20_ModelTextIsConcatenation ==
    [][ last'.ev = "chunk" =>
          /\ Len(messages') = Len(messages)
          /\ \A k \in 1..(Len(messages) - 1) : messages'[k] = messages[k]
          /\ messages'[Len(messages)]
                = [messages[Len(messages)] EXCEPT !.text = ConcatText(received')]
          /\ messages[Len(messages)].sender = "model" ]_vars

\* C23: getCurrentUser never rejects.  When its profile request fails, by a
\* failed response of any category or by a transport failure, it returns
\* null and no token is stored afterwards; when the request succeeds it
\* returns what the request returned and leaves the stored token as it was.
C23_GetCurrentUserNeverRejects ==
    [][ (last'.ev = "settle" /\ last'.api = "getCurrentUser") =>
          /\ last'.result = Resolved
          /\ (last'.network /\ last'.requestResult # Resolved)
                => last'.value = JsonNull /\ localStorage' = Null
          /\ (last'.network /\ last'.requestResult = Resolved)
                => /\ localStorage' = localStorage
                   /\ last'.value \in { UserObject(u) : u \in Users } \cup {JsonNull} ]_vars

C23_Witness ==
    /\ last.ev = "settle" /\ last.api = "getCurrentUser" /\ last.network
    /\ last.status = 500 /\ last.requestResult.kind = "AIError"
    /\ last.result = Resolved /\ last.value = JsonNull /\ localStorage = Null

\* C30: an upload started with a signal that is already aborted ends with the
\* AbortError: no other outcome ends it, a response least of all.
C30_PreAbortedSignal ==
    [][ \A i \in CallSlots :
          (calls[i].mode = "postWithProgress" /\ calls[i].signal = "aborted"
              /\ calls'[i] # calls[i])
              => last'.result = onabort ]_vars
\* C22: analyzeVideoWithAI sends a file to /api/video/analyze and a URL to
\* /api/video/submit, as multipart; the executor is postWithProgress exactly
\* when the source is a file and both the progress callback and the signal
\* are given, and postFormData otherwise.  A call run by postFormData ends
\* only by the settlement of its fetch: no abort ends it, and progress is
\* reported only while an upload of postWithProgress is in flight.
C22_VideoEndpointAndExecutor ==
    [][ /\ (last'.ev = "issue" /\ last'.endpoint # "") =>
              /\ last'.endpoint = IF last'.source = "file" THEN "/api/video/analyze"
                                  ELSE "/api/video/submit"
              /\ last'.bodyKind = "formdata"
              /\ last'.api \in {"postWithProgress", "postFormData"}
              /\ last'.api = "postWithProgress"
                    <=> (last'.source = "file" /\ last'.onProgressGiven /\ last'.signalGiven)
              /\ \E i \in CallSlots : calls'[i] # calls[i] /\ calls'[i].mode = last'.api
        /\ last'.ev = "progress" =>
              \E i \in CallSlots : calls[i].mode = "postWithProgress"
        /\ \A i \in CallSlots :
              (calls[i].mode = "postFormData" /\ calls'[i] # calls[i])
                  => last'.ev = "settle" /\ last'.api = "postFormData" ]_vars

C22_Witness ==
    /\ last.ev = "issue" /\ last.endpoint = "/api/video/analyze" /\ last.source = "file"
    /\ last.onProgressGiven /\ ~last.signalGiven /\ last.api = "postFormData"
    /\ \E i \in CallSlots : calls[i].mode = "postFormData" /\ calls[i].phase = "pending"
\* C21: cancelling an upload in flight shows the cancellation message and not
\* a failure message, sets no analysis result and adds no history entry; and
\* whenever handleAnalysis has finished (by success, failure, cancellation or
\* the return of its validation) isLoading is false and the ref is null.
C21_CancelShowsCancellation ==
    [][ /\ (last'.ev = "cancel" /\ analysis.pc = "inflight"
               /\ analysis.api = "postWithProgress")
            => /\ videoError' = "Video analysis has been cancelled."
               /\ analysisResult' = analysisResult
               /\ history' = history
               /\ analysis'.pc = "idle"
        /\ (last'.api = "handleAnalysis" /\ analysis'.pc = "idle")
            => ~videoIsLoading' /\ abortControllerRef' = Null ]_vars

C21_Witness ==
    /\ last.ev = "cancel" /\ last.result = onabort
    /\ videoError = "Video analysis has been cancelled."
    /\ uploadProgress = percentComplete(1, 2)
    /\ Len(history) = 1 /\ analysisResult = Null
    /\ ~videoIsLoading /\ abortControllerRef = Null
\* C24: when the mount effect runs and the profile request is answered or
\* fails, isLoadingUser becomes false and stays false; the step that ends the
\* validation sets currentUser to the user of the response or to null.
C24_ValidationCompletes ==
    /\ <>[](~isLoadingUser)
    /\ [][ (validation.pc # "done" /\ validation'.pc = "done")
              => /\ ~isLoadingUser'
                 /\ currentUser' = UserOf(last'.value)
                 /\ last'.requestResult \notin {Resolved, NoResult} => currentUser' = Null ]_vars

C24_Witness ==
    /\ validation.pc = "done" /\ ~isLoadingUser /\ currentUser = Null
    /\ last.api = "getCurrentUser" /\ last.status = 500 /\ last.requestResult = RawError("TypeError")

\* C25: whenever currentUser is not null a token is stored.
C25_UserImpliesToken == currentUser # Null => localStorage # Null

\* C26: the failure of a profile request that was sent with another token
\* than the one now stored, the token of a login that succeeded meanwhile,
\* leaves the stored token in place.
C26_StaleFailureKeepsToken ==
    [][ (validation.pc = "pending" /\ validation'.pc = "done"
           /\ localStorage # Null /\ localStorage # validation.token)
          => localStorage' = localStorage ]_vars

\* C27: when no request of AppProvider awaits its response and no effect is
\* still to run, the users list is empty unless currentUser is an administrator.
C27_UsersOnlyForAdmin ==
    ( /\ requestsPending = 0 /\ validation.pc = "done"
      /\ ~effectRuns(renderedUser, currentUser, userFresh)
      /\ ~isAdmin(currentUser) ) => users = <<>>

\* C28: a login whose request fails, or succeeds without the token or the
\* user, rejects and leaves the stored token and currentUser as they were; a
\* login that resolves has stored the token of its response.
C28_LoginFrame ==
    [][ (last'.ev = "settle" /\ last'.api = "login") =>
          IF last'.requestResult = Resolved /\ ~last'.value.isNull
             /\ Truthy(last'.value.token) /\ Truthy(last'.value.user)
          THEN last'.result = Resolved /\ localStorage' = last'.value.token
          ELSE /\ last'.result # Resolved
               /\ localStorage' = localStorage
               /\ currentUser' = currentUser ]_vars

C28_Witness ==
    /\ last.ev = "settle" /\ last.api = "login" /\ last.status = 200
    /\ last.result = RawError("Error")
    /\ localStorage = "t2" /\ currentUser = "admin" /\ logins = 0
\* what one step of the chat view does to isLoading and to the message list
ChatStepEffect ==
    /\ (last'.ev = "send") =>
          (/\ ~isLoading /\ isLoading'
           /\ Len(messages') = Len(messages) + 2
           /\ SubSeq(messages', 1, Len(messages)) = messages
           /\ messages'[Len(messages) + 1].sender = "user"
           /\ messages'[Len(messages) + 2].sender = "model")
    /\ (last'.ev \in {"end", "fail"}) => (isLoading /\ ~isLoading')
    /\ (last'.ev = "chunk") => (isLoading /\ isLoading')

\* C29: isLoading is true exactly while the stream of a send runs, from the
\* start of handleSendMessage to the end or the failure of the stream; a send
\* starts only while isLoading is false, so at most one stream runs at a
\* time; and a send appends one user message followed by one model message.
C29_OneStreamAtATime ==
    /\ [](streams <= 1 /\ (isLoading <=> streams = 1))
    /\ [][ChatStepEffect]_vars

C29_Witness ==
    /\ last.ev = "send" /\ isLoading /\ streams = 1 /\ Len(messages) = 4
    /\ messages[3].sender = "user" /\ messages[3].file = "photo.png" /\ messages[3].text = ""
    /\ messages[4] = Message(modelMessageId, "", "model", Undefined)

====
